---------------------------- MODULE Spec2Model ----------------------------
(***************************************************************************)
(* Signature extraction engine of context-it: the delimiter scanner, the   *)
(* Go and TypeScript extractors and their normalizers, modelled on         *)
(* character sequences.  A JavaScript string is a sequence of one-character*)
(* strings; JavaScript indexes from 0, Sequences from 1, and every         *)
(* operator below keeps the 0-based indexes of the source.                 *)
(***************************************************************************)
EXTENDS Integers, Sequences, FiniteSets, TLC

VARIABLES
    pc,        \* "call" before the operation ran, then the operation's name
    code,      \* the string handed to the operation
    args,      \* the other arguments of the call
    matches,   \* the fragment list of the extraction run
    ret        \* the value the operation returned

vars == <<pc, code, args, matches, ret>>

(***************************************************************************)
(* JavaScript string primitives.                                           *)
(***************************************************************************)

\* src[i]: the character at 0-based index i, undefined (here "") outside.
At(s, i) == IF i >= 0 /\ i < Len(s) THEN s[i + 1] ELSE ""

Max2(a, b) == IF a > b THEN a ELSE b

Min2(a, b) == IF a < b THEN a ELSE b

\* An index argument of String.prototype.slice, made absolute and clamped.
SliceIndex(s, i) == IF i < 0 THEN Max2(Len(s) + i, 0) ELSE Min2(i, Len(s))

\* s.slice(from, to)
Slice(s, from, to) ==
    LET a == SliceIndex(s, from)
        b == SliceIndex(s, to)
    IN  IF a >= b THEN <<>> ELSE SubSeq(s, a + 1, b)

\* s.slice(from)
SliceFrom(s, from) == Slice(s, from, Len(s))

\* The characters the model's inputs use of JavaScript's \s class.
Whitespace == {" ", "\t", "\n", "\r"}

\* The line terminators `.` does not match and `$` (flag m) stops before.
LineTerminators == {"\n", "\r"}

LowerCase ==
    {"a", "b", "c", "d", "e", "f", "g", "h", "i", "j", "k", "l", "m", "n", "o", "p", "q", "r", "s", "t", "u", "v", "w", "x", "y", "z"}

UpperCase ==
    {"A", "B", "C", "D", "E", "F", "G", "H", "I", "J", "K", "L", "M", "N", "O", "P", "Q", "R", "S", "T", "U", "V", "W", "X", "Y", "Z"}

Digits == {"0", "1", "2", "3", "4", "5", "6", "7", "8", "9"}

\* [A-Za-z_]
IsIdentStart(c) == c \in LowerCase \cup UpperCase \cup {"_"}

\* \w, that is [A-Za-z0-9_]
IsWord(c) == c \in LowerCase \cup UpperCase \cup Digits \cup {"_"}

\* \s
IsSpace(c) == c \in Whitespace

\* The index just past the longest run, starting at index i, of characters
\* in class: where a greedy `[class]*` stops.
RunEnd(s, i, class) ==
    LET stops == {j \in i..Len(s) : j = Len(s) \/ At(s, j) \notin class}
    IN  CHOOSE j \in stops : \A k \in stops : j <= k

\* The same for a negated class `[^class]*`.
RunEndNot(s, i, class) ==
    LET stops == {j \in i..Len(s) : j = Len(s) \/ At(s, j) \in class}
    IN  CHOOSE j \in stops : \A k \in stops : j <= k

WordChars == LowerCase \cup UpperCase \cup Digits \cup {"_"}

\* s.trimStart()
TrimStart(s) == SubSeq(s, RunEnd(s, 0, Whitespace) + 1, Len(s))

\* s.trimEnd()
TrimEnd(s) ==
    LET ends == {n \in 0..Len(s) : \A k \in (n + 1)..Len(s) : s[k] \in Whitespace}
    IN  SubSeq(s, 1, CHOOSE n \in ends : \A m \in ends : n <= m)

\* s.trim()
Trim(s) == TrimEnd(TrimStart(s))

\* s.startsWith(prefix, at)
StartsWithAt(s, prefix, at) ==
    /\ at >= 0
    /\ at + Len(prefix) <= Len(s)
    /\ \A k \in 1..Len(prefix) : s[at + k] = prefix[k]

\* s.startsWith(prefix)
StartsWith(s, prefix) == StartsWithAt(s, prefix, 0)

\* s.endsWith(suffix)
EndsWith(s, suffix) == StartsWithAt(s, suffix, Len(s) - Len(suffix))

\* s.indexOf(pattern, from): the first index >= from at which pattern
\* occurs, or -1.
IndexOf(s, pattern, from) ==
    LET hits == {i \in Max2(from, 0)..(Len(s) - Len(pattern)) : StartsWithAt(s, pattern, i)}
    IN  IF hits = {} THEN -1 ELSE CHOOSE i \in hits : \A j \in hits : i <= j

\* s.lastIndexOf(pattern)
LastIndexOf(s, pattern) ==
    LET hits == {i \in 0..(Len(s) - Len(pattern)) : StartsWithAt(s, pattern, i)}
    IN  IF hits = {} THEN -1 ELSE CHOOSE i \in hits : \A j \in hits : i >= j

\* s.includes(pattern)
Includes(s, pattern) == IndexOf(s, pattern, 0) # -1

RECURSIVE Concat(_)
\* parts.join(""): the concatenation of a list of strings.
Concat(parts) ==
    IF parts = <<>> THEN <<>> ELSE Head(parts) \o Concat(Tail(parts))

RECURSIVE Join(_, _)
\* parts.join(sep)
Join(parts, sep) ==
    IF parts = <<>> THEN <<>>
    ELSE IF Len(parts) = 1 THEN Head(parts)
    ELSE Head(parts) \o sep \o Join(Tail(parts), sep)

\* An optional field of an object literal: absent, or present with a value.
None == <<>>

Some(v) == <<v>>

\* All sequences over alphabet of length 0..n.
StringsUpTo(alphabet, n) == UNION {[1..k -> alphabet] : k \in 0..n}

(***************************************************************************)
(* 4.1 Delimiter scanner.                                                  *)
(***************************************************************************)

\* The loop with the depth test forgotten: it stops at the first close.
ReadBalancedLoopFirstClose(src, i, depth, open, close) ==
    LET closes == {k \in i..(Len(src) - 1) : At(src, k) = close}
    IN  IF closes = {} THEN -1
        ELSE CHOOSE k \in closes : \A j \in closes : k <= j

RECURSIVE ReadBalancedLoop(_, _, _, _, _)
\* The for loop shared by both readBalanced variants, entered at index i
\* with the running depth: the index of the close that brings the depth
\* to 0, or -1 when the loop runs off the end of src.  Characters other
\* than the two delimiters leave the loop's state unchanged, so the loop is
\* advanced over each run of them in one step.
ReadBalancedLoop(src, i, depth, open, close) ==
    LET n == RunEndNot(src, Min2(i, Len(src)), {open, close}) IN
    IF n >= Len(src) THEN -1
    ELSE IF At(src, n) = open
         THEN ReadBalancedLoop(src, n + 1, depth + 1, open, close)
         ELSE IF depth - 1 = 0 THEN n
              ELSE ReadBalancedLoop(src, n + 1, depth - 1, open, close)

\* readBalanced without its lenient fallback: an unbalanced group is
\* reported as "not found".
TsReadBalancedNoFallback(src, start, open, close) ==
    IF At(src, start) # open THEN [content |-> <<>>, end |-> start]
    ELSE LET i == ReadBalancedLoop(src, start, 0, open, close) IN
         IF i >= 0 THEN [content |-> Slice(src, start, i + 1), end |-> i + 1]
         ELSE [content |-> <<>>, end |-> -1]

\* TypeScriptParser.readBalanced
TsReadBalanced(src, start, open, close) ==
    IF At(src, start) # open THEN [content |-> <<>>, end |-> start]
    ELSE LET i == ReadBalancedLoop(src, start, 0, open, close) IN
         IF i >= 0 THEN [content |-> Slice(src, start, i + 1), end |-> i + 1]
         ELSE [content |-> SliceFrom(src, start), end |-> Len(src)]

\* GoParser.readBalanced
GoReadBalanced(src, start, open, close) ==
    IF At(src, start) # open THEN [content |-> <<>>, rest |-> src]
    ELSE LET i == ReadBalancedLoop(src, start, 0, open, close) IN
         IF i >= 0 THEN [content |-> Slice(src, start, i + 1),
                         rest |-> SliceFrom(src, i + 1)]
         ELSE [content |-> SliceFrom(src, start), rest |-> <<>>]

\* A caller that forgets the `if (!paramGroup) continue` guard.
TsParamGroupNoSkip(g) ==
    [skip |-> FALSE, paramsInside |-> Slice(g.content, 1, -1), end |-> g.end]

\* The callers of TypeScriptParser.readBalanced: read the group at the
\* parenthesis, skip the candidate when the group is empty, else take the
\* text inside the parentheses.
TsParamGroup(g) ==
    IF g.content = <<>> THEN [skip |-> TRUE, paramsInside |-> <<>>, end |-> g.end]
    ELSE [skip |-> FALSE, paramsInside |-> Slice(g.content, 1, -1), end |-> g.end]

\* The parameter group read at the parenthesis.
TsReadParamGroup(src, parenStart) == TsParamGroup(TsReadBalanced(src, parenStart, "(", ")"))

(***************************************************************************)
(* 4.2 Comment stripper of the Go extractor.                               *)
(***************************************************************************)

RECURSIVE RemoveLineComments(_, _)
\* code.replace(/\/\/.*$/gm, ""), from index i on: each `//` is removed up
\* to, not including, the next line terminator.
RemoveLineComments(s, i) ==
    LET c == IndexOf(s, <<"/", "/">>, i) IN
    IF c = -1 THEN SliceFrom(s, i)
    ELSE Slice(s, i, c) \o RemoveLineComments(s, RunEndNot(s, c + 2, LineTerminators))

\* The index of the first `/*` at or after index i that has a `*/` starting
\* at least two characters later, or -1.
NextBlockComment(s, i) ==
    LET opens == {c \in i..(Len(s) - 4) :
                    /\ StartsWithAt(s, <<"/", "*">>, c)
                    /\ IndexOf(s, <<"*", "/">>, c + 2) # -1}
    IN  IF opens = {} THEN -1 ELSE CHOOSE c \in opens : \A d \in opens : c <= d

RECURSIVE RemoveBlockComments(_, _)
\* code.replace(/\/\*[\s\S]*?\*\//g, ""), from index i on: each `/*` is
\* removed up to and including the first `*/` that starts at least two
\* characters later; a `/*` that is never closed stays.
RemoveBlockComments(s, i) ==
    LET c == NextBlockComment(s, i) IN
    IF c = -1 THEN SliceFrom(s, i)
    ELSE Slice(s, i, c)
             \o RemoveBlockComments(s, IndexOf(s, <<"*", "/">>, c + 2) + 2)

\* GoParser.removeComments: line comments first, then block comments.
GoRemoveComments(c) == RemoveBlockComments(RemoveLineComments(c, 0), 0)

(***************************************************************************)
(* 4.3 Go extractor.                                                       *)
(***************************************************************************)

KwFunc == <<"f", "u", "n", "c">>

RECURSIVE GoScanSignature(_, _, _, _)
\* The inner while loop of extractFunctionMatches: from index j, the index
\* just past the first `{` met outside parentheses and brackets, or the
\* length of src.  The loop is advanced over each run of characters other
\* than ( ) [ ] { in one step.
GoScanSignature(src, j, parenDepth, bracketDepth) ==
    LET n == RunEndNot(src, Min2(j, Len(src)), {"(", ")", "[", "]", "{"}) IN
    IF n >= Len(src) THEN Max2(j, Len(src))
    ELSE LET ch == At(src, n) IN
         IF ch = "(" THEN GoScanSignature(src, n + 1, parenDepth + 1, bracketDepth)
         ELSE IF ch = ")"
              THEN GoScanSignature(src, n + 1, Max2(0, parenDepth - 1), bracketDepth)
         ELSE IF ch = "[" THEN GoScanSignature(src, n + 1, parenDepth, bracketDepth + 1)
         ELSE IF ch = "]"
              THEN GoScanSignature(src, n + 1, parenDepth, Max2(0, bracketDepth - 1))
         ELSE IF parenDepth = 0 /\ bracketDepth = 0 THEN n + 1
         ELSE GoScanSignature(src, n + 1, parenDepth, bracketDepth)

\* A validation that lets every fragment through.
GoValidFragmentAlways(fragment) == TRUE

\* /func\s+[^\n{]*\(/.test(fragment): somewhere `func`, at least one
\* whitespace character, then characters other than newline and `{`, then `(`.
GoValidFragment(fragment) ==
    \E p \in 0..(Len(fragment) - 1) :
        /\ StartsWithAt(fragment, KwFunc, p)
        /\ \E q \in (p + 5)..RunEnd(fragment, p + 4, Whitespace) :
              \E r \in q..(Len(fragment) - 1) :
                  /\ At(fragment, r) = "("
                  /\ RunEndNot(fragment, q, {"\n", "{"}) >= r

RECURSIVE GoMatchesFrom(_, _, _)
\* The outer while loop of extractFunctionMatches, entered at index i with
\* the fragments found so far.
GoMatchesFrom(src, i, found) ==
    IF i >= Len(src) THEN found
    ELSE LET idx == IndexOf(src, KwFunc, i) IN
         IF idx = -1 THEN found
         ELSE IF idx > 0 /\ IsWord(At(src, idx - 1))
              THEN GoMatchesFrom(src, idx + 4, found)
         ELSE IF At(src, idx + 4) # ""
                 /\ ~(IsSpace(At(src, idx + 4)) \/ At(src, idx + 4) = "(")
              THEN GoMatchesFrom(src, idx + 4, found)
         ELSE LET j == GoScanSignature(src, idx + 4, 0, 0)
                  fragment == Slice(src, idx, j)
              IN  GoMatchesFrom(src, j,
                                IF GoValidFragment(fragment)
                                THEN Append(found, fragment) ELSE found)

\* GoParser.extractFunctionMatches
GoExtractFunctionMatches(c) == GoMatchesFrom(GoRemoveComments(c), 0, <<>>)

(***************************************************************************)
(* 4.4 Go normalizer.                                                      *)
(***************************************************************************)

\* The segment pushed for a buffer: its trimmed text, when not empty.
PushSegment(buf) == IF Trim(buf) # <<>> THEN <<Trim(buf)>> ELSE <<>>

RECURSIVE SplitTopLevelParen(_, _, _, _)
\* The first loop of GoParser.parseParameters from index i, with the index
\* at which the buffer began and the parenthesis depth: the trimmed
\* non-empty segments between commas that are outside parentheses.  The
\* loop is advanced over each run of characters other than ( ) , in one
\* step; the buffer is the text from its beginning to the loop index.
SplitTopLevelParen(paramsStr, i, bufStart, parenDepth) ==
    LET n == RunEndNot(paramsStr, Min2(i, Len(paramsStr)), {"(", ")", ","}) IN
    IF n >= Len(paramsStr) THEN PushSegment(SliceFrom(paramsStr, bufStart))
    ELSE LET ch == At(paramsStr, n) IN
         IF ch = "(" THEN SplitTopLevelParen(paramsStr, n + 1, bufStart, parenDepth + 1)
         ELSE IF ch = ")"
              THEN SplitTopLevelParen(paramsStr, n + 1, bufStart,
                                      Max2(0, parenDepth - 1))
         ELSE IF parenDepth = 0
              THEN PushSegment(Slice(paramsStr, bufStart, n))
                       \o SplitTopLevelParen(paramsStr, n + 1, n + 1, parenDepth)
              ELSE SplitTopLevelParen(paramsStr, n + 1, bufStart, parenDepth)

\* GoParser.parseParameters, lines 193-209: the segments.
GoSegments(paramsStr) == SplitTopLevelParen(paramsStr, 0, 0, 0)

RECURSIVE SplitWhitespace(_)
\* raw.split(/\s+/) for a trimmed raw: its maximal runs of non-whitespace.
SplitWhitespace(raw) ==
    IF raw = <<>> THEN <<>>
    ELSE LET e == RunEndNot(raw, 0, Whitespace)
             n == RunEnd(raw, e, Whitespace)
         IN  <<Slice(raw, 0, e)>> \o SplitWhitespace(SliceFrom(raw, n))

\* type.replace(/\s+/g, " ").trim()
CleanType(type) == Join(SplitWhitespace(Trim(type)), <<" ">>)

\* pushTyped giving the type to the last name only.
PushTypedLastOnly(names, type) ==
    [k \in 1..Len(names) |->
        [name |-> names[k],
         type |-> IF k = Len(names) THEN Some(CleanType(type)) ELSE None]]

RECURSIVE PushTyped(_, _)
\* pushTyped(names, type): one typed Param per non-empty name.
PushTyped(names, type) ==
    IF names = <<>> THEN <<>>
    ELSE (IF Head(names) = <<>> THEN <<>>
          ELSE <<[name |-> Head(names), type |-> Some(CleanType(type))]>>)
             \o PushTyped(Tail(names), type)

RECURSIVE PushUntyped(_)
\* The final loop: one untyped Param per pending name.
PushUntyped(names) ==
    IF names = <<>> THEN <<>>
    ELSE <<[name |-> Head(names), type |-> None]>> \o PushUntyped(Tail(names))

AnonymousName == <<"(", "a", "n", "o", "n", "y", "m", "o", "u", "s", ")">>

RECURSIVE GoParamsLoop(_, _)
\* The second loop of GoParser.parseParameters over the segments left, with
\* the pending names: the Params pushed from here on.
GoParamsLoop(segments, pendingNames) ==
    IF segments = <<>> THEN PushUntyped(pendingNames)
    ELSE LET raw == Head(segments) IN
         IF raw = <<>> THEN GoParamsLoop(Tail(segments), pendingNames)
         ELSE IF StartsWith(raw, KwFunc \o <<"(">>)
              THEN <<[name |-> AnonymousName, type |-> Some(raw)]>>
                       \o GoParamsLoop(Tail(segments), pendingNames)
         ELSE IF \E k \in 1..Len(raw) : IsSpace(raw[k])
              THEN LET tokens == SplitWhitespace(raw)
                       first == Head(tokens)
                       restType == Join(Tail(tokens), <<" ">>)
                   IN  PushTyped(Append(pendingNames, first), restType)
                           \o GoParamsLoop(Tail(segments), <<>>)
         ELSE GoParamsLoop(Tail(segments),
                           Append(pendingNames,
                                  IF raw[Len(raw)] = ","
                                  THEN Slice(raw, 0, -1) ELSE raw))

\* GoParser.parseParameters
GoParseParameters(paramsStr) ==
    IF Trim(paramsStr) = <<>> THEN <<>>
    ELSE GoParamsLoop(GoSegments(paramsStr), <<>>)

\* noPkg.replace(/\[.*\]$/, ""): from the first `[` on, when the text ends
\* with `]`.
DropGenericInstantiation(noPkg) ==
    LET open == IndexOf(noPkg, <<"[">>, 0) IN
    IF open # -1 /\ noPkg[Len(noPkg)] = "]"
       /\ open < Len(noPkg) - 1
       /\ RunEndNot(noPkg, open, LineTerminators) = Len(noPkg)
    THEN Slice(noPkg, 0, open) ELSE noPkg

\* GoParser.extractReceiverType, for a non-empty receiver text.
GoExtractReceiverType(receiver) ==
    LET parts == SplitWhitespace(Trim(receiver)) IN
    IF parts = <<>> THEN None
    ELSE LET last == parts[Len(parts)]
             noPtr == IF Head(last) = "*" THEN Tail(last) ELSE last
             dot == LastIndexOf(noPtr, <<".">>)
             popped == SliceFrom(noPtr, dot + 1)
             noPkg == IF popped = <<>> THEN noPtr ELSE popped
         IN  Some(DropGenericInstantiation(noPkg))

\* receiverRaw.match(/([A-Za-z_]\w*)\s*\[([^\]]+)\]/): group 2 of the
\* leftmost match, trimmed; None when there is no match.
GoReceiverGenerics(receiverRaw) ==
    LET starts == {p \in 0..(Len(receiverRaw) - 1) :
                     /\ IsIdentStart(At(receiverRaw, p))
                     /\ LET b == RunEnd(receiverRaw, RunEnd(receiverRaw, p, WordChars),
                                        Whitespace)
                        IN  /\ At(receiverRaw, b) = "["
                            /\ IndexOf(receiverRaw, <<"]">>, b + 1) > b + 1}
    IN  IF starts = {} THEN None
        ELSE LET p == CHOOSE x \in starts : \A y \in starts : x <= y
                 b == RunEnd(receiverRaw, RunEnd(receiverRaw, p, WordChars), Whitespace)
             IN  Some(Trim(Slice(receiverRaw, b + 1, IndexOf(receiverRaw, <<"]">>, b + 1))))

\* The return type of parseFunctionSignature, lines 127-149, read from the
\* text s that follows the parameter list: an optional string.
GoReadReturnType(s) ==
    IF StartsWith(s, <<"(">>)
    THEN Some(<<"(">> \o Trim(Slice(GoReadBalanced(s, 0, "(", ")").content, 1, -1))
                  \o <<")">>)
    ELSE LET run == RunEndNot(s, 0, {"{", "\n"}) IN
         IF run >= 1 /\ At(s, run) = "{"
         THEN (IF Trim(Slice(s, 0, run)) # <<>> THEN Some(Trim(Slice(s, 0, run)))
               ELSE None)
         ELSE LET brace == IndexOf(s, <<"{">>, 0)
                  rt2 == IF brace = -1 THEN Trim(s)
                         ELSE Trim(Slice(s, 0, brace)
                                   \o SliceFrom(s, RunEndNot(s, brace, LineTerminators)))
              IN  IF rt2 # <<>> THEN Some(rt2) ELSE None

\* normalizeReturnType applied to `returnType || ""`.
GoNormalizeReturnType(returnType) ==
    IF returnType = None THEN None
    ELSE IF Trim(returnType[1]) = <<>> THEN None ELSE Some(Trim(returnType[1]))

\* GoParser.parseFunctionSignature: None for null, else the signature.
GoParseFunctionSignature(decl) ==
    LET s0 == Trim(decl) IN
    IF ~StartsWith(s0, KwFunc) THEN None
    ELSE
    LET s1 == Trim(SliceFrom(s0, 4))
        hasReceiver == StartsWith(s1, <<"(">>)
        recv == GoReadBalanced(s1, 0, "(", ")")
        receiverRaw == IF hasReceiver THEN Trim(Slice(recv.content, 1, -1)) ELSE <<>>
        s2 == IF hasReceiver THEN Trim(recv.rest) ELSE s1
        nameLen == IF IsIdentStart(At(s2, 0)) THEN RunEnd(s2, 0, WordChars) ELSE 0
    IN
    IF nameLen = 0 THEN None
    ELSE
    LET name == Slice(s2, 0, nameLen)
        s3 == Trim(SliceFrom(s2, nameLen))
        endIdx == IndexOf(s3, <<"]">>, 0)
        hasGenerics == StartsWith(s3, <<"[">>) /\ endIdx # -1
        genericRaw == IF hasGenerics THEN Trim(Slice(s3, 1, endIdx)) ELSE <<>>
        s4 == IF hasGenerics THEN Trim(SliceFrom(s3, endIdx + 1)) ELSE s3
    IN
    IF ~StartsWith(s4, <<"(">>) THEN None
    ELSE
    LET paramsBalanced == GoReadBalanced(s4, 0, "(", ")")
        paramsRaw == Slice(paramsBalanced.content, 1, -1)
        s5 == Trim(paramsBalanced.rest)
        returnType == GoReadReturnType(s5)
        parameters == GoParseParameters(paramsRaw)
        className == IF receiverRaw # <<>> THEN GoExtractReceiverType(receiverRaw)
                     ELSE None
        receiverGenerics == IF receiverRaw # <<>> THEN GoReceiverGenerics(receiverRaw)
                            ELSE None
        finalName == IF genericRaw # <<>> THEN name \o <<"[">> \o genericRaw \o <<"]">>
                     ELSE IF receiverGenerics # None /\ receiverGenerics[1] # <<>>
                          THEN name \o <<"[">> \o receiverGenerics[1] \o <<"]">>
                          ELSE name
    IN  Some([name |-> finalName,
              parameters |-> parameters,
              returnType |-> GoNormalizeReturnType(returnType),
              className |-> IF className # None /\ className[1] # <<>>
                            THEN className ELSE None])

RECURSIVE GoParseAll(_)
\* matches.map(parseFunctionSignature).filter(sig => sig !== null)
GoParseAll(fragments) ==
    IF fragments = <<>> THEN <<>>
    ELSE GoParseFunctionSignature(Head(fragments)) \o GoParseAll(Tail(fragments))

\* BaseParser.extractSignatures for the Go extractor.  No step of the Go
\* hooks raises, so the catch branch is never taken.
GoExtractSignatures(c) == GoParseAll(GoExtractFunctionMatches(c))

(***************************************************************************)
(* 4.5 Regular-expression steps shared by the TypeScript extractor and     *)
(* normalizer.  A step continues a match at index p of s and gives the     *)
(* index after it, or -1 when there is no match (also when p is -1).       *)
(***************************************************************************)

\* The literal texts of the TypeScript regexes and fragments.
Kw ==
    [function |-> <<"f", "u", "n", "c", "t", "i", "o", "n">>,
     const |-> <<"c", "o", "n", "s", "t">>,
     export |-> <<"e", "x", "p", "o", "r", "t">>,
     async |-> <<"a", "s", "y", "n", "c">>,
     class |-> <<"c", "l", "a", "s", "s">>,
     constructor |-> <<"c", "o", "n", "s", "t", "r", "u", "c", "t", "o", "r">>,
     public |-> <<"p", "u", "b", "l", "i", "c">>,
     private |-> <<"p", "r", "i", "v", "a", "t", "e">>,
     protected |-> <<"p", "r", "o", "t", "e", "c", "t", "e", "d">>,
     static |-> <<"s", "t", "a", "t", "i", "c">>,
     forwardRef |-> <<"f", "o", "r", "w", "a", "r", "d", "R", "e", "f">>,
     reactDot |-> <<"R", "e", "a", "c", "t", ".">>,
     classMarker |-> <<"@", "c", "l", "a", "s", "s", ":">>,
     arrow |-> <<"=", ">">>]

\* [\w$]
WordDollarChars == WordChars \cup {"$"}

\* The smallest element of a non-empty set of indexes.
MinOf(S) == CHOOSE x \in S : \A y \in S : x <= y

\* The largest element of a non-empty set of indexes.
MaxOf(S) == CHOOSE x \in S : \A y \in S : x >= y

\* `kw\s+`
AfterKeyword(s, p, kw) ==
    IF StartsWithAt(s, kw, p) /\ IsSpace(At(s, p + Len(kw)))
    THEN RunEnd(s, p + Len(kw), Whitespace)
    ELSE -1

\* `(?:kw\s+)?` followed by something that no keyword starts: the keyword
\* is taken when it is there.
SkipKeyword(s, p, kw) ==
    IF StartsWithAt(s, kw, p) /\ IsSpace(At(s, p + Len(kw)))
    THEN RunEnd(s, p + Len(kw), Whitespace)
    ELSE p

\* `[A-Za-z_]\w*`
MatchIdent(s, p) ==
    IF p # -1 /\ IsIdentStart(At(s, p)) THEN RunEnd(s, p, WordChars) ELSE -1

\* `(?:<[^stops]{least,}>)?`, where the stops hold `>`: the type arguments
\* are taken when they are there.
SkipAngle(s, p, least, stops) ==
    IF /\ p # -1
       /\ At(s, p) = "<"
       /\ At(s, RunEndNot(s, p + 1, stops)) = ">"
       /\ RunEndNot(s, p + 1, stops) >= p + 1 + least
    THEN RunEndNot(s, p + 1, stops) + 1
    ELSE p

\* A literal text
MatchLiteral(s, p, lit) == IF StartsWithAt(s, lit, p) THEN p + Len(lit) ELSE -1

\* `(?:lit)?` followed by something that lit does not start: the literal is
\* taken when it is there.
SkipLiteral(s, p, lit) == IF StartsWithAt(s, lit, p) THEN p + Len(lit) ELSE p

\* `\s*c` for a character c
MatchSpacedChar(s, p, c) ==
    IF p # -1 /\ At(s, RunEnd(s, p, Whitespace)) = c
    THEN RunEnd(s, p, Whitespace) + 1
    ELSE -1

\* `(?:^|\n|\r)\s*` tried at start index p: the index at which the rest of
\* the regex has to match, or -1 when p is neither the start of the text nor
\* a line terminator.
AnchorBody(src, p) ==
    IF p = 0 THEN RunEnd(src, 0, Whitespace)
    ELSE IF At(src, p) \in LineTerminators THEN RunEnd(src, p + 1, Whitespace)
    ELSE -1

\* /\bword\b/.test(s)
HasWord(s, word) ==
    \E p \in 0..(Len(s) - Len(word)) :
        /\ StartsWithAt(s, word, p)
        /\ ~IsWord(At(s, p - 1))
        /\ ~IsWord(At(s, p + Len(word)))

\* The arrow tail from the index w after its leading whitespace.  The
\* annotation run `[^stops]+` is greedy, and the whitespace before it gives
\* characters back only when the run would otherwise be empty.
AnnotatedArrowFrom(s, w, stops) ==
    LET starts == {g \in (w + 1)..RunEnd(s, Min2(w + 1, Len(s)), Whitespace) :
                     /\ RunEndNot(s, g, stops) > g
                     /\ StartsWithAt(s, Kw.arrow,
                                     RunEnd(s, RunEndNot(s, g, stops), Whitespace))}
    IN  IF At(s, w) = ":" /\ starts # {}
        THEN [ok |-> TRUE,
              type |-> Some(Slice(s, MaxOf(starts), RunEndNot(s, MaxOf(starts), stops)))]
        ELSE [ok |-> StartsWithAt(s, Kw.arrow, w), type |-> None]

\* The tail `(?:\s*:\s*([^stops]+))?\s*=>` of the arrow regexes, matched
\* at index p of s: whether it matches, and the captured annotation (none
\* when the optional group did not take part).  The group is tried first.
AnnotatedArrowAt(s, p, stops) == AnnotatedArrowFrom(s, RunEnd(s, p, Whitespace), stops)

(***************************************************************************)
(* 4.6 TypeScript normalizer.                                              *)
(***************************************************************************)

\* The default-value stripping of processParam: when the type text holds
\* `=` and no `=>`, the text before its last `=`, trimmed.  (The while loop
\* of the source steps back over `=>` and so never runs under this guard.)
TsStripDefault(type) ==
    IF Includes(type, <<"=">>) /\ ~Includes(type, Kw.arrow)
    THEN Trim(Slice(type, 0, LastIndexOf(type, <<"=">>)))
    ELSE type

\* processParam after its trim and its search for the colon: the Params
\* (none or one) pushed for the text.
TsSplitAtColon(text, colonPos) ==
    IF text = <<>> THEN <<>>
    ELSE IF colonPos = -1 THEN <<[name |-> text, type |-> None]>>
    ELSE <<[name |-> Trim(Slice(text, 0, colonPos)),
            type |-> Some(TsStripDefault(Trim(SliceFrom(text, colonPos + 1))))]>>

\* The separator taken at the last colon of the text.
TsProcessParamLastColon(paramText) ==
    TsSplitAtColon(Trim(paramText), LastIndexOf(Trim(paramText), <<":">>))

\* processParam: the separator is paramText.indexOf(":").
TsProcessParam(paramText) ==
    TsSplitAtColon(Trim(paramText), IndexOf(Trim(paramText), <<":">>, 0))

\* insideBrackets()
InsideBrackets(depth) ==
    depth.paren > 0 \/ depth.angle > 0 \/ depth.square > 0 \/ depth.curly > 0

\* The switch of the parseParameters loop: the depth record after the
\* character ch at index i, prev being the character before it.
TsDepthAfter(depth, ch, prev, i) ==
    IF ch = "(" THEN [depth EXCEPT !.paren = @ + 1]
    ELSE IF ch = ")" THEN [depth EXCEPT !.paren = @ - 1]
    ELSE IF ch = "<" THEN [depth EXCEPT !.angle = @ + 1]
    ELSE IF ch = ">"
         THEN (IF i = 0 \/ prev # "=" THEN [depth EXCEPT !.angle = @ - 1] ELSE depth)
    ELSE IF ch = "[" THEN [depth EXCEPT !.square = @ + 1]
    ELSE IF ch = "]" THEN [depth EXCEPT !.square = @ - 1]
    ELSE IF ch = "{" THEN [depth EXCEPT !.curly = @ + 1]
    ELSE IF ch = "}" THEN [depth EXCEPT !.curly = @ - 1]
    ELSE depth

\* The brackets and the comma: the characters the parseParameters loop
\* acts on.
TsParamDelimiters == {"(", ")", "<", ">", "[", "]", "{", "}", ","}

RECURSIVE TsParamsLoop(_, _, _, _)
\* The loop at the next delimiter n, with the depth record after its
\* switch, or at the end of the text, where the final buffer is processed.
TsParamsNext(paramsStr, n, bufStart, after) ==
    IF n >= Len(paramsStr)
    THEN (IF Trim(SliceFrom(paramsStr, bufStart)) # <<>>
          THEN TsProcessParam(SliceFrom(paramsStr, bufStart)) ELSE <<>>)
    ELSE IF At(paramsStr, n) = "," /\ ~InsideBrackets(after)
    THEN TsProcessParam(Trim(Slice(paramsStr, bufStart, n)))
             \o TsParamsLoop(paramsStr, n + 1, n + 1, after)
    ELSE TsParamsLoop(paramsStr, n + 1, bufStart, after)

\* The for loop of TypeScriptParser.parseParameters from index i, with the
\* index at which the buffer began and the depth record: the Params pushed
\* from here on.  The loop is advanced over each run of characters other
\* than the delimiters in one step.
TsParamsLoop(paramsStr, i, bufStart, depth) ==
    LET n == RunEndNot(paramsStr, Min2(i, Len(paramsStr)), TsParamDelimiters) IN
    TsParamsNext(paramsStr, n, bufStart,
                 TsDepthAfter(depth, At(paramsStr, n), At(paramsStr, n - 1), n))

\* TypeScriptParser.parseParameters
TsParseParameters(paramsStr) ==
    IF Trim(paramsStr) = <<>> THEN <<>>
    ELSE TsParamsLoop(paramsStr, 0, 0,
                      [paren |-> 0, angle |-> 0, square |-> 0, curly |-> 0])

\* The index of the leftmost match of /@class:(\w+)/ in decl, or -1.
TsClassMarkerIndex(decl) ==
    LET hits == {m \in 0..(Len(decl) - 8) :
                   StartsWithAt(decl, Kw.classMarker, m) /\ IsWord(At(decl, m + 7))}
    IN  IF hits = {} THEN -1 ELSE MinOf(hits)

\* classMatch ? classMatch[1] : undefined
TsClassNameOf(decl) ==
    LET m == TsClassMarkerIndex(decl) IN
    IF m = -1 THEN None
    ELSE Some(Slice(decl, m + 7, RunEnd(decl, m + 7, WordChars)))

\* fnDeclaration.replace(/@class:\w+/, "").trim()
TsCleanDeclaration(decl) ==
    LET m == TsClassMarkerIndex(decl) IN
    IF m = -1 THEN Trim(decl)
    ELSE Trim(Slice(decl, 0, m) \o SliceFrom(decl, RunEnd(decl, m + 7, WordChars)))

\* `const\s+(\w+)\s*=\s*\(` at index c of s: the index after the `(`, or -1.
TsArrowHeadParen(s, c) ==
    LET ws == AfterKeyword(s, c, Kw.const) IN
    IF ws # -1 /\ IsWord(At(s, ws))
    THEN MatchSpacedChar(s, MatchSpacedChar(s, RunEnd(s, ws, WordChars), "="), "(")
    ELSE -1

\* The closing parentheses at which the lazy `(.*?)\)` of the arrow regex
\* can end after the `(` before index open: each `)` on the line that is
\* followed by the annotated arrow.
TsArrowClosesFrom(s, open) ==
    IF open = -1 THEN {}
    ELSE {q \in open..(RunEndNot(s, open, LineTerminators) - 1) :
            At(s, q) = ")" /\ AnnotatedArrowAt(s, q + 1, {"=", "\n"}).ok}

\* Groups 1 to 3 of the arrow regex, for the name at index ws, the `(`
\* before index open and the `)` at index q.
TsArrowGroups(s, ws, open, q) ==
    Some([name |-> Slice(s, ws, RunEnd(s, ws, WordChars)),
          params |-> Slice(s, open, q),
          returnType |-> AnnotatedArrowAt(s, q + 1, {"=", "\n"}).type])

\* cleanDeclaration.match(/(?:export\s+)?const\s+(\w+)\s*=\s*\((.*?)\)
\* (?:\s*:\s*([^=\n]+))?\s*=>/): None, or groups 1 to 3 of the leftmost
\* match, its parameter group the shortest possible.
TsArrowMatch(s) ==
    LET starts == {c \in 0..(Len(s) - 1) :
                     TsArrowClosesFrom(s, TsArrowHeadParen(s, c)) # {}}
    IN  IF starts = {} THEN None
        ELSE TsArrowGroups(s, AfterKeyword(s, MinOf(starts), Kw.const),
                           TsArrowHeadParen(s, MinOf(starts)),
                           MinOf(TsArrowClosesFrom(s, TsArrowHeadParen(s, MinOf(starts)))))

\* The groups of the header regex for the name from p to ne, the end ge of
\* the optional type arguments, and the index paren after `\s*`: None when
\* no `(` is there, else the index of the `(` and the name, which is
\* `${baseName}<${generics}>` when the generics are not empty.
TsHeaderGroupsAt(s, p, ne, ge, paren) ==
    IF ne > p /\ At(s, paren) = "("
    THEN Some([name |-> IF ge > ne + 2 THEN Slice(s, p, ge) ELSE Slice(s, p, ne),
               paren |-> paren])
    ELSE None

\* `([\w$]+)(?:<([^>]*)>)?\s*\(` at index p of s
TsHeaderName(s, p) ==
    LET ne == RunEnd(s, Min2(p, Len(s)), WordDollarChars) IN
    TsHeaderGroupsAt(s, p, ne, SkipAngle(s, ne, 0, {">"}),
                     RunEnd(s, SkipAngle(s, ne, 0, {">"}), Whitespace))

\* The optional keyword groups of the header regex, in order.
TsHeaderGroups ==
    << {Kw.export}, {Kw.public, Kw.private, Kw.protected}, {Kw.async}, {Kw.function} >>

RECURSIVE TsHeaderFrom(_, _, _)
\* The header regex from index p with the optional groups still ahead: a
\* group can be taken up to one of the indexes takes; it is taken first,
\* and given back when the rest does not match behind it.
TsHeaderTake(s, p, groups, takes) ==
    IF takes # {} /\ TsHeaderFrom(s, MinOf(takes), groups) # None
    THEN TsHeaderFrom(s, MinOf(takes), groups)
    ELSE TsHeaderFrom(s, p, groups)

\* The header regex from index p with the optional groups still ahead.
TsHeaderFrom(s, p, groups) ==
    IF groups = <<>> THEN TsHeaderName(s, p)
    ELSE TsHeaderTake(s, p, Tail(groups),
                      {AfterKeyword(s, p, kw) : kw \in Head(groups)} \ {-1})

\* remainder.match(/^\s*:\s*([^@]+)/) behind its leading whitespace, which
\* ends at index w, the trim of its group and the removal of a final `;`:
\* the return type, None when there is no match or the text is empty.
TsReturnTypeAt(remainder, w) ==
    LET e == RunEndNot(remainder, Min2(w + 1, Len(remainder)), {"@"})
        trimmed == Trim(Slice(remainder, w + 1, e))
    IN  IF At(remainder, w) # ":" \/ e <= w + 1 THEN None
        ELSE IF EndsWith(trimmed, <<";">>)
        THEN (IF Trim(Slice(trimmed, 0, -1)) # <<>>
              THEN Some(Trim(Slice(trimmed, 0, -1))) ELSE None)
        ELSE IF trimmed # <<>> THEN Some(trimmed) ELSE None

\* The standard function / method / constructor branch: null without a
\* header match or without the matching `)`.
TsParseHeader(clean, className, headerMatch) ==
    LET paramEnd == ReadBalancedLoop(clean, headerMatch[1].paren, 0, "(", ")") IN
    IF headerMatch = None THEN None
    ELSE IF paramEnd = -1 THEN None
    ELSE Some([name |-> headerMatch[1].name,
               parameters |-> TsParseParameters(
                                  Slice(clean, headerMatch[1].paren + 1, paramEnd)),
               returnType |-> TsReturnTypeAt(SliceFrom(clean, paramEnd + 1),
                                  RunEnd(SliceFrom(clean, paramEnd + 1), 0, Whitespace)),
               isAsync |-> HasWord(clean, Kw.async),
               className |-> className])

\* The arrow branch when the arrow regex matches, else the header branch
\* with cleanDeclaration.match(/^(?:export\s+)?(?:public\s+|private\s+|
\* protected\s+)?(?:async\s+)?(?:function\s+)?([\w$]+)(?:<([^>]*)>)?\s*\(/).
TsParseEither(clean, className, arrowMatch) ==
    IF arrowMatch # None
    THEN Some([name |-> arrowMatch[1].name,
               parameters |-> TsParseParameters(arrowMatch[1].params),
               returnType |-> IF arrowMatch[1].returnType = None THEN None
                              ELSE Some(Trim(arrowMatch[1].returnType[1])),
               isAsync |-> FALSE,
               className |-> className])
    ELSE TsParseHeader(clean, className, TsHeaderFrom(clean, 0, TsHeaderGroups))

\* TypeScriptParser.parseFunctionSignature: None for null, else the
\* signature.  No step of it raises, so the catch branch is never taken.
TsParseFunctionSignature(fnDeclaration) ==
    TsParseEither(TsCleanDeclaration(fnDeclaration), TsClassNameOf(fnDeclaration),
                  TsArrowMatch(TsCleanDeclaration(fnDeclaration)))

RECURSIVE TsParseAll(_)
\* matches.map(parseFunctionSignature).filter(sig => sig !== null)
TsParseAll(fragments) ==
    IF fragments = <<>> THEN <<>>
    ELSE TsParseFunctionSignature(Head(fragments)) \o TsParseAll(Tail(fragments))

(***************************************************************************)
(* 4.7 TypeScript extractor.  A regex tried at a start index gives a       *)
(* record of its groups with the index `end` after the match (the regex's  *)
(* lastIndex), which is -1 when there is no match at that start.           *)
(***************************************************************************)

\* TypeScriptParser.stripComments: block comments first, then line comments.
TsStripComments(src) == RemoveLineComments(RemoveBlockComments(src, 0), 0)

RECURSIVE TsDepthLoop(_, _, _, _)
\* The brace counter d of extractFunctionMatches when its loop, entered at
\* index i, reaches index k.  The loop is advanced over each run of
\* characters other than braces in one step.
TsDepthLoop(src, i, d, k) ==
    LET n == RunEndNot(src, Min2(i, Len(src)), {"{", "}"}) IN
    IF n >= k \/ n >= Len(src) THEN d
    ELSE TsDepthLoop(src, n + 1, IF At(src, n) = "{" THEN d + 1 ELSE Max2(0, d - 1), k)

\* depth[k]: an opening brace counts itself, a closing brace is still inside.
TsDepthAt(src, k) ==
    TsDepthLoop(src, 0, 0, k) + (IF At(src, k) = "{" THEN 1 ELSE 0)

\* The guard without the test of the depth.
TsAnyLevel(src, idx) == idx # -1

\* The guard of the top-level passes for the index of the keyword:
\* `idx === -1 || depth[idx] !== 0` is false.
TsTopLevel(src, idx) == idx # -1 /\ TsDepthAt(src, idx) = 0

\* `([A-Za-z_]\w*)(<[^>]+>)?\s*\(` at index q of s, for a match that
\* started at index.
TsNameGenericsParen(s, index, q) ==
    LET ne == MatchIdent(s, q) IN
    [index |-> index, name |-> Slice(s, q, ne),
     generics |-> Slice(s, ne, SkipAngle(s, ne, 1, {">"})),
     end |-> MatchSpacedChar(s, SkipAngle(s, ne, 1, {">"}), "(")]

\* The optional return annotation in the trimmed text after the parameter
\* group: rest.match(/^([^={;\n]+)/) behind a `:`, trimmed.
TsReturnOfRest(rest) ==
    LET rest2 == TrimStart(SliceFrom(rest, 1)) IN
    IF StartsWith(rest, <<":">>)
    THEN Trim(Slice(rest2, 0, RunEndNot(rest2, 0, {"=", "{", ";", "\n"})))
    ELSE <<>>

\* The optional return annotation read by the function and method passes
\* from the text after the parameter group: "" when there is none.
TsReturnAnnotation(after) == TsReturnOfRest(TrimStart(after))

\* `: returnType` when the return type is not empty.
TsAnnotationSuffix(returnType) ==
    IF returnType # <<>> THEN <<":", " ">> \o returnType ELSE <<>>

\* funcRegex tried at start index p.
TsFuncHeadAt(src, p) ==
    TsNameGenericsParen(src, p,
        AfterKeyword(src,
            SkipKeyword(src, SkipKeyword(src, AnchorBody(src, p), Kw.export), Kw.async),
            Kw.function))

\* /async\s+function/.test(text)
HasAsyncFunction(text) ==
    \E i \in 0..(Len(text) - 1) :
        StartsWithAt(text, Kw.function, AfterKeyword(text, i, Kw.async))

RECURSIVE TsFunctionDeclarationsFrom(_, _)
\* The body of the while loop for the match m and the parameter group read
\* at its `(`, and the rest of the loop.
TsFunctionDeclarationsPush(src, m, group) ==
    (IF ~TsTopLevel(src, IndexOf(src, Kw.function, m.index)) \/ group.skip
     THEN <<>>
     ELSE << (IF HasAsyncFunction(Slice(src, m.index, m.end))
              THEN Kw.async \o <<" ">> ELSE <<>>)
                 \o m.name \o m.generics
                 \o <<"(">> \o group.paramsInside \o <<")">>
                 \o TsAnnotationSuffix(TsReturnAnnotation(SliceFrom(src, group.end))) >>)
        \o TsFunctionDeclarationsFrom(src, m.end)

\* TypeScriptParser.extractFunctionDeclarations: the while loop with
\* funcRegex.lastIndex = from; the fragments pushed from here on.
TsFunctionDeclarationsFrom(src, from) ==
    LET starts == {p \in from..(Len(src) - 1) : TsFuncHeadAt(src, p).end # -1} IN
    IF starts = {} THEN <<>>
    ELSE TsFunctionDeclarationsPush(src, TsFuncHeadAt(src, MinOf(starts)),
             TsReadParamGroup(src, TsFuncHeadAt(src, MinOf(starts)).end - 1))

\* The groups of the common head for the name from b2 to ne.
TsConstHeadTo(src, p, exported, b2, ne) ==
    [index |-> p, exported |-> exported, name |-> Slice(src, b2, ne),
     end |-> IF ne >= b2 + 2
             THEN RunEnd(src, MatchSpacedChar(src, ne, "="), Whitespace) ELSE -1]

\* The common head `(?:^|\n|\r)\s*(export\s+)?const\s+([A-Za-z_]\w+)\s*=\s*`
\* of the arrow, forwardRef and alias regexes tried at start index p.
TsConstHeadAt(src, p) ==
    LET b2 == AfterKeyword(src, SkipKeyword(src, AnchorBody(src, p), Kw.export), Kw.const)
    IN  TsConstHeadTo(src, p, AfterKeyword(src, AnchorBody(src, p), Kw.export) # -1,
                      b2, MatchIdent(src, b2))

\* A match that goes on behind the head h and ends at index end.
TsHeadTo(h, end) == [h EXCEPT !.end = end]

\* arrowRegex tried at start index p.
TsArrowHeadAt(src, p) ==
    TsHeadTo(TsConstHeadAt(src, p),
             MatchLiteral(src, TsConstHeadAt(src, p).end, <<"(">>))

\* (arrowMatch[1] || "").trim(), "" when arrowMatch is null
TsArrowReturnType(arrowMatch) ==
    IF arrowMatch.ok /\ arrowMatch.type # None THEN Trim(arrowMatch.type[1]) ELSE <<>>

RECURSIVE TsArrowFunctionsFrom(_, _)
\* The body of the while loop for the match m and the parameter group read
\* at its `(`, and the rest of the loop.
TsArrowFunctionsPush(src, m, group) ==
    (IF ~TsTopLevel(src, IndexOf(src, Kw.const, m.index)) \/ group.skip
     THEN <<>>
     ELSE << (IF m.exported THEN Kw.export \o <<" ">> ELSE <<>>)
                 \o Kw.const \o <<" ">> \o m.name \o <<" ", "=", " ", "(">>
                 \o group.paramsInside \o <<")">>
                 \o TsAnnotationSuffix(TsArrowReturnType(
                        AnnotatedArrowAt(SliceFrom(src, group.end), 0, {"=", ";", "\n"})))
                 \o <<" ">> \o Kw.arrow >>)
        \o TsArrowFunctionsFrom(src, m.end)

\* TypeScriptParser.extractArrowFunctions: the while loop with
\* arrowRegex.lastIndex = from.
TsArrowFunctionsFrom(src, from) ==
    LET starts == {p \in from..(Len(src) - 1) : TsArrowHeadAt(src, p).end # -1} IN
    IF starts = {} THEN <<>>
    ELSE TsArrowFunctionsPush(src, TsArrowHeadAt(src, MinOf(starts)),
             TsReadParamGroup(src, TsArrowHeadAt(src, MinOf(starts)).end - 1))

\* `(?:React\.)?forwardRef\s*(?:<[^>]*>)?\s*\(` at index a of src: the
\* index after the `(`, or -1.
TsForwardRefParen(src, a) ==
    MatchSpacedChar(src,
        SkipAngle(src,
            RunEnd(src, MatchLiteral(src, SkipLiteral(src, a, Kw.reactDot), Kw.forwardRef),
                   Whitespace),
            0, {">"}),
        "(")

\* frRegex tried at start index p.
TsForwardRefHeadAt(src, p) ==
    TsHeadTo(TsConstHeadAt(src, p), TsForwardRefParen(src, TsConstHeadAt(src, p).end))

\* The fragment (none or one) for the trimmed forwardRef argument and the
\* parameter list read at its first `(`.  The regex of the return type has
\* no match without its annotation, and gives "" then.
TsForwardRefInner(name, inner, firstParen, innerBalanced) ==
    IF firstParen < 0 \/ innerBalanced.content = <<>> THEN <<>>
    ELSE << Kw.const \o <<" ">> \o name \o <<" ", "=", " ", "(">>
                \o Slice(innerBalanced.content, 1, -1) \o <<")">>
                \o TsAnnotationSuffix(TsArrowReturnType(
                       AnnotatedArrowAt(SliceFrom(inner, innerBalanced.end), 0,
                                        {"=", ")", "\n"})))
                \o <<" ">> \o Kw.arrow >>

RECURSIVE TsForwardRefComponentsFrom(_, _)
\* The body of the while loop for the match m and the trimmed argument
\* group read at its `(`, and the rest of the loop.
TsForwardRefComponentsPush(src, m, inner) ==
    (IF ~TsTopLevel(src, IndexOf(src, Kw.const, m.index)) \/ inner = <<>>
     THEN <<>>
     ELSE TsForwardRefInner(m.name, inner, IndexOf(inner, <<"(">>, 0),
              TsReadBalanced(inner, IndexOf(inner, <<"(">>, 0), "(", ")")))
        \o TsForwardRefComponentsFrom(src, m.end)

\* TypeScriptParser.extractForwardRefComponents: the while loop with
\* frRegex.lastIndex = from.
TsForwardRefComponentsFrom(src, from) ==
    LET starts == {p \in from..(Len(src) - 1) : TsForwardRefHeadAt(src, p).end # -1} IN
    IF starts = {} THEN <<>>
    ELSE TsForwardRefComponentsPush(src, TsForwardRefHeadAt(src, MinOf(starts)),
             TrimStart(TsReadBalanced(src, TsForwardRefHeadAt(src, MinOf(starts)).end - 1,
                                      "(", ")").content))

\* [A-Za-z_$]
IdentStartDollar == LowerCase \cup UpperCase \cup {"_", "$"}

RECURSIVE DottedChainEnd(_, _)
\* `(?:\.[A-Za-z_$][\w$]*)*` from index e of s: the index where the longest
\* chain of `.name` parts ends.
DottedChainEnd(s, e) ==
    IF At(s, e) = "." /\ At(s, e + 1) \in IdentStartDollar
    THEN DottedChainEnd(s, RunEnd(s, e + 1, WordDollarChars))
    ELSE e

\* `[A-Za-z_$][\w$]*(?:\.[A-Za-z_$][\w$]*)+\s*;?` at index a of src: the
\* index after the match, or -1.
TsAliasEnd(src, a) ==
    LET first == RunEnd(src, a, WordDollarChars) IN
    IF a # -1 /\ At(src, a) \in IdentStartDollar /\ DottedChainEnd(src, first) > first
    THEN SkipLiteral(src, RunEnd(src, DottedChainEnd(src, first), Whitespace), <<";">>)
    ELSE -1

\* aliasRegex tried at start index p.
TsAliasHeadAt(src, p) ==
    TsHeadTo(TsConstHeadAt(src, p), TsAliasEnd(src, TsConstHeadAt(src, p).end))

RECURSIVE TsConstAliasesFrom(_, _)
\* The body of the while loop for the match m, and the rest of the loop.
TsConstAliasesPush(src, m) ==
    (IF ~TsTopLevel(src, IndexOf(src, Kw.const, m.index)) THEN <<>>
     ELSE << Kw.const \o <<" ">> \o m.name \o <<" ", "=", " ", "(", ")", " ">>
                 \o Kw.arrow >>)
        \o TsConstAliasesFrom(src, m.end)

\* TypeScriptParser.extractConstAliases: the while loop with
\* aliasRegex.lastIndex = from.
TsConstAliasesFrom(src, from) ==
    LET starts == {p \in from..(Len(src) - 1) : TsAliasHeadAt(src, p).end # -1} IN
    IF starts = {} THEN <<>>
    ELSE TsConstAliasesPush(src, TsAliasHeadAt(src, MinOf(starts)))

\* The modifier keywords of methodRegex.
TsMethodModifiers == {Kw.public, Kw.private, Kw.protected, Kw.static, Kw.async}

RECURSIVE TsMethodNameFrom(_, _, _)
\* methodRegex behind a modifier that can be taken up to one of the indexes
\* takes: the modifier is taken first, and given back when no name and `(`
\* follow it.
TsMethodTake(body, index, q, takes) ==
    IF takes # {} /\ TsMethodNameFrom(body, index, MinOf(takes)).end # -1
    THEN TsMethodNameFrom(body, index, MinOf(takes))
    ELSE TsNameGenericsParen(body, index, q)

\* `(?:public\s+|private\s+|protected\s+|static\s+|async\s+)*` and the rest
\* of methodRegex from index q of the body.
TsMethodNameFrom(body, index, q) ==
    TsMethodTake(body, index, q,
                 {AfterKeyword(body, q, kw) : kw \in TsMethodModifiers} \ {-1})

\* methodRegex tried at start index p of the body.
TsMethodHeadAt(body, p) == TsMethodNameFrom(body, p, AnchorBody(body, p))

\* /\basync\b/.test(beforeName) for the matched text and the method name
TsPossibleAsync(prefixSegment, name) ==
    HasWord(Trim(Slice(prefixSegment, 0, LastIndexOf(prefixSegment, name))), Kw.async)

RECURSIVE TsMethodsFrom(_, _, _)
\* The body of the while loop for the match mm and the parameter group read
\* at its `(`, and the rest of the loop.
TsMethodsPush(body, className, mm, group) ==
    (IF group.skip THEN <<>>
     ELSE IF mm.name = Kw.constructor
     THEN << Kw.constructor \o <<"(">> \o group.paramsInside \o <<")", " ">>
                 \o Kw.classMarker \o className >>
     ELSE << (IF TsPossibleAsync(Slice(body, mm.index, mm.end), mm.name)
              THEN Kw.async \o <<" ">> ELSE <<>>)
                 \o mm.name \o mm.generics
                 \o <<"(">> \o group.paramsInside \o <<")">>
                 \o TsAnnotationSuffix(TsReturnAnnotation(SliceFrom(body, group.end)))
                 \o <<" ">> \o Kw.classMarker \o className >>)
        \o TsMethodsFrom(body, className, mm.end)

\* TypeScriptParser.extractMethodsFromClassBody: the while loop with
\* methodRegex.lastIndex = from.
TsMethodsFrom(body, className, from) ==
    LET starts == {p \in from..(Len(body) - 1) : TsMethodHeadAt(body, p).end # -1} IN
    IF starts = {} THEN <<>>
    ELSE TsMethodsPush(body, className, TsMethodHeadAt(body, MinOf(starts)),
             TsReadParamGroup(body, TsMethodHeadAt(body, MinOf(starts)).end - 1))

\* TypeScriptParser.captureBalancedBraces
TsCaptureBalancedBraces(src, startBraceIndex) ==
    LET i == ReadBalancedLoop(src, startBraceIndex, 0, "{", "}") IN
    IF At(src, startBraceIndex) # "{" THEN [body |-> <<>>, end |-> startBraceIndex]
    ELSE IF i >= 0 THEN [body |-> Slice(src, startBraceIndex + 1, i), end |-> i + 1]
    ELSE [body |-> SliceFrom(src, startBraceIndex + 1), end |-> Len(src)]

\* classRegex /class\s+([A-Za-z_]\w*)(<[^>{]+>)?\s*\{/ tried at index c.
TsClassHeadAt(src, c) ==
    LET b == AfterKeyword(src, c, Kw.class) IN
    [index |-> c, name |-> Slice(src, b, MatchIdent(src, b)),
     end |-> MatchSpacedChar(src, SkipAngle(src, MatchIdent(src, b), 1, {">", "{"}), "{")]

RECURSIVE TsClassesAndMethodsFrom(_, _)
\* The body of the while loop for the match m and the class body captured
\* at its `{`, and the rest of the loop: from the end of the match for a
\* class that is not at the top level, else from classRegex.lastIndex = end.
TsClassesAndMethodsPush(src, m, captured) ==
    IF TsDepthAt(src, m.index) # 0 THEN TsClassesAndMethodsFrom(src, m.end)
    ELSE TsMethodsFrom(captured.body, m.name, 0)
             \o TsClassesAndMethodsFrom(src, captured.end)

\* TypeScriptParser.extractClassesAndMethods: the while loop with
\* classRegex.lastIndex = from.
TsClassesAndMethodsFrom(src, from) ==
    LET starts == {c \in from..(Len(src) - 1) : TsClassHeadAt(src, c).end # -1} IN
    IF starts = {} THEN <<>>
    ELSE TsClassesAndMethodsPush(src, TsClassHeadAt(src, MinOf(starts)),
             TsCaptureBalancedBraces(src, TsClassHeadAt(src, MinOf(starts)).end - 1))

RECURSIVE TsUnique(_, _)
\* The merge loop: each fragment trimmed, kept when not seen before.
TsUnique(merged, seen) ==
    IF merged = <<>> THEN <<>>
    ELSE LET trimmed == Trim(Head(merged)) IN
         IF trimmed \in seen THEN TsUnique(Tail(merged), seen)
         ELSE <<trimmed>> \o TsUnique(Tail(merged), seen \cup {trimmed})

\* The passes merged with the class members before the consts.
TsMergeMethodsFirst(src) ==
    TsUnique(TsFunctionDeclarationsFrom(src, 0)
                 \o TsClassesAndMethodsFrom(src, 0)
                 \o TsArrowFunctionsFrom(src, 0)
                 \o TsForwardRefComponentsFrom(src, 0)
                 \o TsConstAliasesFrom(src, 0), {})

\* extractFunctionMatches on the text without comments: the passes in
\* order, merged and deduplicated.
TsMergePasses(src) ==
    TsUnique(TsFunctionDeclarationsFrom(src, 0)
                 \o TsArrowFunctionsFrom(src, 0)
                 \o TsForwardRefComponentsFrom(src, 0)
                 \o TsConstAliasesFrom(src, 0)
                 \o TsClassesAndMethodsFrom(src, 0), {})

\* TypeScriptParser.extractFunctionMatches
TsExtractFunctionMatches(c) == TsMergePasses(TsStripComments(c))

\* BaseParser.extractSignatures for the TypeScript extractor.  No step of
\* the TypeScript hooks raises, so the catch branch is never taken.
TsExtractSignatures(c) == TsParseAll(TsExtractFunctionMatches(c))

(***************************************************************************)
(* 4.8 Rust extractor and normalizer.                                      *)
(***************************************************************************)

\* The literal texts of the Rust regexes and templates.
RustKw ==
    [fn |-> <<"f", "n">>,
     impl |-> <<"i", "m", "p", "l">>,
     trait |-> <<"t", "r", "a", "i", "t">>,
     self |-> <<"s", "e", "l", "f">>,
     refSelf |-> <<"&", "s", "e", "l", "f">>,
     refMutSelf |-> <<"&", "m", "u", "t", " ", "s", "e", "l", "f">>,
     mut |-> <<"m", "u", "t">>,
     arrow |-> <<"-", ">">>,
     path |-> <<":", ":">>]

RECURSIVE Split(_, _)
\* s.split(c) for a one-character separator c.
Split(s, c) ==
    LET n == RunEndNot(s, 0, {c}) IN
    IF n = Len(s) THEN <<s>>
    ELSE <<Slice(s, 0, n)>> \o Split(SliceFrom(s, n + 1), c)

\* `(?:\s*lit\s*([^stops]+))?` at index p of s, for a literal lit: the
\* index where it ends and the captured text (None when the group did not
\* take part).  The group is tried first; its class run is greedy, and the
\* whitespace before it gives characters back only when the run would
\* otherwise be empty.
OptionalTypeAt(s, p, lit, stops) ==
    LET a == RunEnd(s, p, Whitespace) + Len(lit)
        starts == {g \in a..RunEnd(s, Min2(a, Len(s)), Whitespace) :
                     RunEndNot(s, g, stops) > g}
    IN  IF StartsWithAt(s, lit, a - Len(lit)) /\ starts # {}
        THEN [end |-> RunEndNot(s, MaxOf(starts), stops),
              type |-> Some(Slice(s, MaxOf(starts), RunEndNot(s, MaxOf(starts), stops)))]
        ELSE [end |-> p, type |-> None]

\* The rest of the regexes below after `fn\s+` matched up to index b and
\* `(\w+)` up to index ne (b = -1 when `fn\s+` does not match).
RustFnNamed(s, qualified, stops, b, ne) ==
    LET te == RunEnd(s, Min2(ne + 2, Len(s)), WordChars)
        hasType == qualified /\ StartsWithAt(s, RustKw.path, ne) /\ te > ne + 2
        paren == RunEnd(s, IF hasType THEN te ELSE ne, Whitespace)
        close == RunEndNot(s, Min2(paren + 1, Len(s)), {")"})
    IN  IF b # -1 /\ ne > b /\ At(s, paren) = "(" /\ close < Len(s)
        THEN Some([name |-> Slice(s, b, ne),
                   typeName |-> IF hasType THEN Some(Slice(s, ne + 2, te)) ELSE None,
                   params |-> Slice(s, paren + 1, close),
                   returnType |-> OptionalTypeAt(s, close + 1, RustKw.arrow, stops).type,
                   end |-> OptionalTypeAt(s, close + 1, RustKw.arrow, stops).end])
        ELSE None

\* `fn\s+(\w+)\s*\(([^)]*)\)(?:\s*->\s*([^stops]+))?` tried at index p of
\* s, with `(?:::(\w+))?` after the name when qualified: None, or the
\* groups of the match and the index where it ends.
RustFnAt(s, p, qualified, stops) ==
    RustFnNamed(s, qualified, stops, AfterKeyword(s, p, RustKw.fn),
                RunEnd(s, AfterKeyword(s, p, RustKw.fn), WordChars))

\* `fn ${name}(${params})${returnType ? ` -> ${returnType}` : ''}`.trim()
RustSignatureText(name, params, returnType) ==
    Trim(RustKw.fn \o <<" ">> \o name \o <<"(">> \o params \o <<")">>
             \o (IF returnType # None
                 THEN <<" ">> \o RustKw.arrow \o <<" ">> \o returnType[1] ELSE <<>>))

\* implRegex and traitRegex, `kw\s+(\w+)\s*{([^}]*)}`, tried at index p of
\* the code: None, or the name, the body and the index where the match ends.
RustBlockAt(src, p, kw) ==
    LET b == AfterKeyword(src, p, kw)
        ne == RunEnd(src, b, WordChars)
        brace == RunEnd(src, ne, Whitespace)
        close == RunEndNot(src, Min2(brace + 1, Len(src)), {"}"})
    IN  IF b # -1 /\ ne > b /\ At(src, brace) = "{" /\ close < Len(src)
        THEN Some([name |-> Slice(src, b, ne),
                   body |-> Slice(src, brace + 1, close),
                   end |-> close + 1])
        ELSE None

RECURSIVE RustMatchesFrom(_, _, _, _)
\* What one of the regexes gives at index p of text, where m is the match
\* of its `fn` part and block the match of its block part there: None, or
\* the fragments pushed for the match and the index where the match ends.
\*   function    /^fn\s+(\w+)\s*\(([^)]*)\)(?:\s*->\s*([^{=\n]+))?\s*{/gm
\*   implMethod  /fn\s+(\w+)\s*\((&?self,?\s*([^)]*))?\)(?:\s*->\s*...)?/g
\*   traitMethod /fn\s+(\w+)\s*\(([^)]*)\)(?:\s*->\s*([^{=\n;]+))?/g
\*   impl, trait the block regexes, whose bodies are searched for methods
RustMatchOf(regex, text, typeName, p, m, block) ==
    IF regex = "function"
    THEN IF /\ p = 0 \/ At(text, p - 1) \in LineTerminators
            /\ m # None
            /\ At(text, RunEnd(text, m[1].end, Whitespace)) = "{"
         THEN Some([push |-> <<RustSignatureText(m[1].name, m[1].params,
                                                 m[1].returnType)>>,
                    end |-> RunEnd(text, m[1].end, Whitespace) + 1])
         ELSE None
    ELSE IF regex = "implMethod"
    THEN IF /\ m # None
            /\ \/ m[1].params = <<>>
               \/ StartsWith(m[1].params, RustKw.self)
               \/ StartsWith(m[1].params, RustKw.refSelf)
         THEN Some([push |-> <<RustSignatureText(
                                   typeName \o RustKw.path \o m[1].name,
                                   IF Includes(m[1].params, RustKw.self) THEN m[1].params
                                   ELSE RustKw.refSelf
                                            \o (IF m[1].params # <<>>
                                                THEN <<",", " ">> \o m[1].params
                                                ELSE <<>>),
                                   m[1].returnType)>>,
                    end |-> m[1].end])
         ELSE None
    ELSE IF regex = "traitMethod"
    THEN IF m # None
         THEN Some([push |-> <<RustSignatureText(typeName \o RustKw.path \o m[1].name,
                                                 m[1].params, m[1].returnType)>>,
                    end |-> m[1].end])
         ELSE None
    ELSE IF block # None
         THEN Some([push |-> RustMatchesFrom(IF regex = "impl" THEN "implMethod"
                                             ELSE "traitMethod",
                                             block[1].body, block[1].name, 0),
                    end |-> block[1].end])
         ELSE None

\* One of the regexes tried at index p of text.
RustMatchAt(regex, text, typeName, p) ==
    RustMatchOf(regex, text, typeName, p,
                RustFnAt(text, p, FALSE,
                         IF regex = "traitMethod" THEN {"{", "=", "\n", ";"}
                         ELSE {"{", "=", "\n"}),
                RustBlockAt(text, p, IF regex = "impl" THEN RustKw.impl ELSE RustKw.trait))

\* The step of the loop below for the attempt m at index p: the search
\* moves on behind index p without a match, to the end of the match with
\* one.
RustMatchesStep(regex, text, typeName, p, m) ==
    IF m = None THEN RustMatchesFrom(regex, text, typeName, p + 1)
    ELSE m[1].push \o RustMatchesFrom(regex, text, typeName, m[1].end)

\* `while ((match = regex.exec(text)) !== null)` with regex.lastIndex =
\* from: the fragments pushed from here on.  The regex is tried at each
\* index where the keyword it starts with occurs.
RustMatchesFrom(regex, text, typeName, from) ==
    LET p == IndexOf(text,
                     IF regex = "impl" THEN RustKw.impl
                     ELSE IF regex = "trait" THEN RustKw.trait ELSE RustKw.fn,
                     from)
    IN  IF p = -1 THEN <<>>
        ELSE RustMatchesStep(regex, text, typeName, p,
                             RustMatchAt(regex, text, typeName, p))

\* RustParser.extractFunctionMatches
RustExtractFunctionMatches(c) ==
    RustMatchesFrom("function", c, <<>>, 0)
        \o RustMatchesFrom("impl", c, <<>>, 0)
        \o RustMatchesFrom("trait", c, <<>>, 0)

\* The map callback of RustParser.parseParameters for one trimmed,
\* non-empty parameter text.
RustParseParam(param) ==
    LET pieces == Split(param, ":")
        nameAndMut == Trim(pieces[1])
        type == IF Len(pieces) > 1 THEN Trim(pieces[2]) ELSE <<>>
        isMutable == StartsWith(nameAndMut, RustKw.mut \o <<" ">>)
    IN  IF param \in {RustKw.refSelf, RustKw.self, RustKw.refMutSelf}
        THEN [name |-> RustKw.self, type |-> None, isMutable |-> FALSE]
        ELSE [name |-> IF AfterKeyword(nameAndMut, 0, RustKw.mut) # -1
                       THEN SliceFrom(nameAndMut, AfterKeyword(nameAndMut, 0, RustKw.mut))
                       ELSE nameAndMut,
              type |-> IF type # <<>> THEN Some(type) ELSE None,
              isMutable |-> isMutable]

RECURSIVE RustParseParts(_)
\* .map(param => param.trim()).filter(Boolean).map(...) over the parts.
RustParseParts(parts) ==
    IF parts = <<>> THEN <<>>
    ELSE (IF Trim(Head(parts)) = <<>> THEN <<>> ELSE <<RustParseParam(Trim(Head(parts)))>>)
             \o RustParseParts(Tail(parts))

\* RustParser.parseParameters
RustParseParameters(paramsStr) == RustParseParts(Split(paramsStr, ","))

\* The object parseFunctionSignature returns for the match m.
RustSignatureOf(m) ==
    [name |-> IF m.typeName # None THEN m.name \o RustKw.path \o m.typeName[1]
              ELSE m.name,
     parameters |-> RustParseParameters(m.params),
     returnType |-> IF m.returnType # None THEN Some(Trim(m.returnType[1])) ELSE None,
     isMethod |-> Includes(m.params, RustKw.self)]

\* RustParser.parseFunctionSignature: None for null, else the signature of
\* the leftmost match.
RustParseFunctionSignature(fnDeclaration) ==
    LET starts == {p \in 0..(Len(fnDeclaration) - 1) :
                     RustFnAt(fnDeclaration, p, TRUE, {"{", "=", "\n"}) # None}
    IN  IF starts = {} THEN None
        ELSE Some(RustSignatureOf(
                      RustFnAt(fnDeclaration, MinOf(starts), TRUE, {"{", "=", "\n"})[1]))

RECURSIVE RustParseAll(_)
\* matches.map(parseFunctionSignature).filter(sig => sig !== null)
RustParseAll(fragments) ==
    IF fragments = <<>> THEN <<>>
    ELSE RustParseFunctionSignature(Head(fragments)) \o RustParseAll(Tail(fragments))

(***************************************************************************)
(* 4.9 PHP extractor and normalizer.                                       *)
(***************************************************************************)

\* The literal texts of the PHP regexes and templates.
PhpKw ==
    [function |-> <<"f", "u", "n", "c", "t", "i", "o", "n">>,
     class |-> <<"c", "l", "a", "s", "s">>,
     visibility |-> { <<"p", "u", "b", "l", "i", "c">>,
                      <<"p", "r", "o", "t", "e", "c", "t", "e", "d">>,
                      <<"p", "r", "i", "v", "a", "t", "e">> },
     marker |-> <<"/", "*", "_", "_", "C", "L", "A", "S", "S", ":">>,
     markerEnd |-> <<"_", "_", "*", "/">>,
     variadic |-> <<".", ".", ".">>]

RECURSIVE RemoveHashComments(_, _)
\* code.replace(/#.*$/gm, ""), from index i on.
RemoveHashComments(s, i) ==
    LET c == IndexOf(s, <<"#">>, i) IN
    IF c = -1 THEN SliceFrom(s, i)
    ELSE Slice(s, i, c) \o RemoveHashComments(s, RunEndNot(s, c + 1, LineTerminators))

\* PhpParser.removeComments: `//` comments first, then `#` comments, then
\* block comments.
PhpRemoveComments(c) ==
    RemoveBlockComments(RemoveHashComments(RemoveLineComments(c, 0), 0), 0)

\* PhpParser.captureBalancedBlock: the same loop as captureBalancedBraces of
\* the TypeScript extractor.
PhpCaptureBalancedBlock(src, startBraceIndex) ==
    TsCaptureBalancedBraces(src, startBraceIndex)

RECURSIVE RemoveAll(_, _)
\* s.replace(/pattern/g, "") for a literal pattern.
RemoveAll(s, pattern) ==
    LET c == IndexOf(s, pattern, 0) IN
    IF c = -1 THEN s
    ELSE Slice(s, 0, c) \o RemoveAll(SliceFrom(s, c + Len(pattern)), pattern)

RECURSIVE PhpNormalizeParens(_, _)
\* matches[i].replace(/\(\s+/g, "("), from index i on.
PhpNormalizeParens(s, i) ==
    LET hits == {c \in i..(Len(s) - 2) : At(s, c) = "(" /\ IsSpace(At(s, c + 1))} IN
    IF hits = {} THEN SliceFrom(s, i)
    ELSE Slice(s, i, MinOf(hits) + 1)
             \o PhpNormalizeParens(s, RunEnd(s, MinOf(hits) + 1, Whitespace))

\* `function\s+([A-Za-z_]\w*)\s*\(([^)]*)\)\s*(?::\s*([^{;\n]+))?` at index
\* f of s: None, or the groups of the match and the index where it ends.
PhpFunctionAt(s, f) ==
    LET ne == MatchIdent(s, AfterKeyword(s, f, PhpKw.function))
        paren == RunEnd(s, ne, Whitespace)
        close == RunEndNot(s, Min2(paren + 1, Len(s)), {")"})
    IN  IF ne # -1 /\ At(s, paren) = "(" /\ close < Len(s)
        THEN Some([name |-> Slice(s, AfterKeyword(s, f, PhpKw.function), ne),
                   params |-> Slice(s, paren + 1, close),
                   returnType |->
                       OptionalTypeAt(s, RunEnd(s, close + 1, Whitespace), <<":">>,
                                      {"{", ";", "\n"}).type,
                   end |->
                       OptionalTypeAt(s, RunEnd(s, close + 1, Whitespace), <<":">>,
                                      {"{", ";", "\n"}).end])
        ELSE None

\* Whether a match of methodRegex (of globalFuncRegex when className is
\* None) can have its `function` at index f: `\b` holds there, or, for
\* methodRegex, a visibility keyword that starts at a word boundary ends
\* there.
PhpFunctionStart(s, f, className) ==
    \/ ~IsWord(At(s, f - 1))
    \/ /\ className # None
       /\ \E kw \in PhpKw.visibility :
              /\ StartsWithAt(s, kw, f - Len(kw))
              /\ ~IsWord(At(s, f - Len(kw) - 1))

\* The fragment pushed for the match m: with the class marker in the method
\* loop; nothing in the global loop when the matched text holds a marker.
PhpFragment(s, f, className, m) ==
    LET line == PhpKw.function \o <<" ">> \o m.name \o <<"(">> \o TrimStart(m.params)
                    \o <<")">>
                    \o (IF m.returnType # None
                        THEN <<":", " ">> \o Trim(m.returnType[1]) ELSE <<>>)
    IN  IF className # None
        THEN <<line \o <<" ">> \o PhpKw.marker \o className[1] \o PhpKw.markerEnd>>
        ELSE IF Includes(Slice(s, f, m.end), PhpKw.marker) THEN <<>>
        ELSE <<line>>

RECURSIVE PhpFunctionsFrom(_, _, _)
\* The step of the loop below for the attempt m at index f.
PhpFunctionsStep(s, className, f, m) ==
    IF m = None THEN PhpFunctionsFrom(s, className, f + 1)
    ELSE PhpFragment(s, f, className, m[1]) \o PhpFunctionsFrom(s, className, m[1].end)

\* `while ((mm = methodRegex.exec(body)) !== null)`, and the same loop over
\* globalFuncRegex when className is None, with lastIndex = from: the
\* fragments pushed from here on.  The regex is tried at each index where
\* the keyword `function` occurs.
PhpFunctionsFrom(s, className, from) ==
    LET f == IndexOf(s, PhpKw.function, from) IN
    IF f = -1 THEN <<>>
    ELSE PhpFunctionsStep(s, className, f,
                          IF PhpFunctionStart(s, f, className) THEN PhpFunctionAt(s, f)
                          ELSE None)

RECURSIVE PhpClassesFrom(_, _)
\* `while ((cm = classRegex.exec(withoutComments)) !== null)` with
\* classRegex.lastIndex = from: the class line and the method lines pushed
\* from here on.
PhpClassesFrom(src, from) ==
    LET c == IndexOf(src, PhpKw.class, from)
        ne == MatchIdent(src, AfterKeyword(src, c, PhpKw.class))
        bodyStart == RunEndNot(src, Max2(ne, 0), {"{"})
    IN  IF c = -1 THEN <<>>
        ELSE IF ne = -1 \/ bodyStart >= Len(src) THEN PhpClassesFrom(src, c + 1)
        ELSE <<PhpKw.class \o <<" ">> \o Slice(src, AfterKeyword(src, c, PhpKw.class), ne)>>
                 \o PhpFunctionsFrom(PhpCaptureBalancedBlock(src, bodyStart).body,
                                     Some(Slice(src, AfterKeyword(src, c, PhpKw.class), ne)),
                                     0)
                 \o PhpClassesFrom(src, PhpCaptureBalancedBlock(src, bodyStart).end)

\* PhpParser.extractFunctionMatches
PhpExtractFunctionMatches(c) ==
    LET found == PhpClassesFrom(PhpRemoveComments(c), 0)
                     \o PhpFunctionsFrom(PhpRemoveComments(c), None, 0)
    IN  [i \in 1..Len(found) |-> PhpNormalizeParens(found[i], 0)]

RECURSIVE PhpStripAttributes(_, _)
\* noDefault.replace(/#\[[^\]]*\]\s*/g, ""), from index i on.
PhpStripAttributes(s, i) ==
    LET c == IndexOf(s, <<"#", "[">>, i)
        close == IndexOf(s, <<"]">>, c + 2)
    IN  IF c = -1 THEN SliceFrom(s, i)
        ELSE IF close = -1 THEN SliceFrom(s, i)
        ELSE Slice(s, i, c) \o PhpStripAttributes(s, RunEnd(s, close + 1, Whitespace))

\* The map callback keeping `&` in the type text.
PhpParamOfKeepRef(cleaned, isVariadic) ==
    LET hits == {d \in 0..(Len(cleaned) - 2) :
                   At(cleaned, d) = "$" /\ IsIdentStart(At(cleaned, d + 1))}
        typePart == IF hits = {} THEN <<>>
                    ELSE Trim(RemoveAll(Trim(Slice(cleaned, 0, MinOf(hits))),
                                        PhpKw.variadic))
    IN  [name |-> IF hits = {} THEN cleaned
                  ELSE Slice(cleaned, MinOf(hits) + 1,
                             RunEnd(cleaned, MinOf(hits) + 1, WordChars)),
         type |-> IF isVariadic THEN Some(PhpKw.variadic \o typePart)
                  ELSE IF typePart = <<>> THEN None ELSE Some(typePart)]

\* The rest of the map callback of PhpParser.parseParameters for the text
\* cleaned of its default value and attributes.
PhpParamOf(cleaned, isVariadic) ==
    LET hits == {d \in 0..(Len(cleaned) - 2) :
                   At(cleaned, d) = "$" /\ IsIdentStart(At(cleaned, d + 1))}
        typePart == IF hits = {} THEN <<>>
                    ELSE Trim(RemoveAll(RemoveAll(Trim(Slice(cleaned, 0, MinOf(hits))),
                                                  <<"&">>),
                                        PhpKw.variadic))
    IN  [name |-> IF hits = {} THEN cleaned
                  ELSE Slice(cleaned, MinOf(hits) + 1,
                             RunEnd(cleaned, MinOf(hits) + 1, WordChars)),
         type |-> IF isVariadic THEN Some(PhpKw.variadic \o typePart)
                  ELSE IF typePart = <<>> THEN None ELSE Some(typePart)]

\* The map callback of PhpParser.parseParameters for one trimmed, non-empty
\* parameter text.
PhpParseParam(raw) ==
    PhpParamOf(PhpStripAttributes(Trim(Split(raw, "=")[1]), 0),
               Includes(Trim(Split(raw, "=")[1]), PhpKw.variadic \o <<"$">>))

RECURSIVE PhpParseParts(_)
\* .map((p) => p.trim()).filter(Boolean).map(...) over the parts.
PhpParseParts(parts) ==
    IF parts = <<>> THEN <<>>
    ELSE (IF Trim(Head(parts)) = <<>> THEN <<>> ELSE <<PhpParseParam(Trim(Head(parts)))>>)
             \o PhpParseParts(Tail(parts))

\* PhpParser.parseParameters
PhpParseParameters(paramsStr) ==
    IF Trim(paramsStr) = <<>> THEN <<>> ELSE PhpParseParts(Split(paramsStr, ","))

\* decl.match(/\/\*__CLASS:([A-Za-z_]\w*)__\*\/$/): the index of the match,
\* or -1.
PhpClassMarkerIndex(decl) ==
    LET hits == {m \in 0..(Len(decl) - 15) :
                   /\ StartsWithAt(decl, PhpKw.marker, m)
                   /\ EndsWith(decl, PhpKw.markerEnd)
                   /\ IsIdentStart(At(decl, m + 10))
                   /\ RunEnd(decl, m + 10, WordChars) = Len(decl) - 2}
    IN  IF hits = {} THEN -1 ELSE MinOf(hits)

\* PhpParser.parseFunctionSignature after the class marker at index marker
\* (-1 for none) is taken off the trimmed declaration.
PhpSignatureOf(decl, marker, fnMatch) ==
    IF fnMatch = None THEN None
    ELSE Some([name |-> fnMatch[1].name,
               parameters |-> PhpParseParameters(fnMatch[1].params),
               returnType |-> IF fnMatch[1].returnType = None THEN None
                              ELSE IF Trim(fnMatch[1].returnType[1]) = <<>> THEN None
                              ELSE Some(Trim(fnMatch[1].returnType[1])),
               className |-> IF marker = -1 THEN None
                             ELSE Some(Slice(decl, marker + 10, Len(decl) - 4))])

\* PhpParser.parseFunctionSignature: None for null, else the signature.
PhpParseFunctionSignature(declaration) ==
    LET decl == Trim(declaration)
        ne == MatchIdent(decl, AfterKeyword(decl, 0, PhpKw.class))
        marker == PhpClassMarkerIndex(decl)
    IN  IF StartsWith(decl, PhpKw.class \o <<" ">>)
        THEN IF ne = -1 THEN None
             ELSE Some([name |-> Slice(decl, AfterKeyword(decl, 0, PhpKw.class), ne),
                        parameters |-> <<>>, returnType |-> None, className |-> None])
        ELSE IF ~StartsWith(decl, PhpKw.function) THEN None
        ELSE PhpSignatureOf(decl, marker,
                            PhpFunctionAt(IF marker = -1 THEN decl
                                          ELSE Trim(Slice(decl, 0, marker)), 0))

RECURSIVE PhpParseAll(_)
\* matches.map(parseFunctionSignature).filter(sig => sig !== null)
PhpParseAll(fragments) ==
    IF fragments = <<>> THEN <<>>
    ELSE PhpParseFunctionSignature(Head(fragments)) \o PhpParseAll(Tail(fragments))



(***************************************************************************)
(* 4.10 Markdown generator: the parser registry.                           *)
(***************************************************************************)

\* The extractor classes registered at startup, in registration order, each
\* with its `extensions` field and the text its getMarkdownLanguageId
\* returns: None for a class that defines no such method.
ParserClasses ==
    << [cls |-> "TypeScriptParser",
        extensions |-> << <<".", "t", "s">>, <<".", "t", "s", "x">>, <<".", "j", "s">>, <<".", "j", "s", "x">> >>,
        languageId |-> Some(<<"t", "y", "p", "e", "s", "c", "r", "i", "p", "t">>)],
       [cls |-> "GoParser", extensions |-> << <<".", "g", "o">> >>,
        languageId |-> Some(<<"g", "o">>)],
       [cls |-> "JavaParser", extensions |-> << <<".", "j", "a", "v", "a">> >>,
        languageId |-> None],
       [cls |-> "RustParser", extensions |-> << <<".", "r", "s">> >>,
        languageId |-> None],
       [cls |-> "PythonParser", extensions |-> << <<".", "p", "y">> >>,
        languageId |-> None],
       [cls |-> "PhpParser", extensions |-> << <<".", "p", "h", "p">> >>,
        languageId |-> Some(<<"p", "h", "p">>)] >>

\* `new C()`: the n-th instance made of class number c.
NewParser(c, n) ==
    [cls |-> ParserClasses[c].cls, instance |-> n,
     extensions |-> ParserClasses[c].extensions,
     languageId |-> ParserClasses[c].languageId]

\* `new Map<string, BaseParser>()`: the map with no key.
EmptyMap == << >>

\* map.has(key)
MapHas(map, key) == key \in DOMAIN map

\* map.get(key): None for undefined.
MapGet(map, key) == IF MapHas(map, key) THEN Some(map[key]) ELSE None

\* A map that keeps the value a key already has.
MapSetIfAbsent(map, key, value) ==
    [k \in DOMAIN map \cup {key} |-> IF k \in DOMAIN map THEN map[k] ELSE value]

\* map.set(key, value)
MapSet(map, key, value) ==
    [k \in DOMAIN map \cup {key} |-> IF k = key THEN value ELSE map[k]]

RECURSIVE RegisterExtensions(_, _, _)
\* The forEach of registerParser over the extensions still to come.
RegisterExtensions(map, parser, exts) ==
    IF exts = <<>> THEN map
    ELSE RegisterExtensions(MapSet(map, Head(exts), parser), parser, Tail(exts))

\* MarkdownGenerator.registerParser: the map afterwards.
RegisterParser(map, parser) == RegisterExtensions(map, parser, parser.extensions)

\* MarkdownGenerator.clearParsers: the map afterwards.
ClearParsers(map) == EmptyMap

RECURSIVE StripTrailingSlashes(_)
\* path.extname and path.basename ignore the separators a path ends with.
StripTrailingSlashes(p) ==
    IF Len(p) > 1 /\ At(p, Len(p) - 1) = "/"
    THEN StripTrailingSlashes(Slice(p, 0, -1)) ELSE p

\* path.extname(filePath) of node:path (POSIX): from the last `.` of the last
\* path segment to its end; "" when there is no `.`, when the only `.` is
\* the first character of the segment, and for the segment `..`.
ExtName(filePath) ==
    LET p == StripTrailingSlashes(filePath)
        base == SliceFrom(p, LastIndexOf(p, <<"/">>) + 1)
        dot == LastIndexOf(base, <<".">>)
    IN  IF dot <= 0 \/ base = <<".", ".">> THEN <<>> ELSE SliceFrom(base, dot)

\* MarkdownGenerator.getParserForFile
GetParserForFile(map, filePath) == MapGet(map, ExtName(filePath))
(***************************************************************************)
(* 4.11 Markdown generator: the section of a file.                         *)
(***************************************************************************)

\* The character U+0060 of a code fence, which a string of this module
\* cannot hold.
Backquote == "U+0060"

\* The constants of MD used by a file section.
MD ==
    [FILE_HEADER_PREFIX |-> <<"#", "#", " ">>,
     SIGNATURES_HEADER |-> <<"#", "#", "#", " ", "F", "u", "n", "c", "t", "i", "o", "n", " ", 
        "S", "i", "g", "n", "a", "t", "u", "r", "e", "s", "\n">>,
     FULL_SOURCE_HEADER |-> <<"#", "#", "#", " ", "F", "u", "l", "l", " ", "S", "o", "u", "r", 
        "c", "e", "\n">>,
     NO_FUNCTIONS_FOUND |-> <<"_", "N", "o", " ", "f", "u", "n", "c", "t", "i", "o", "n", "s", 
        " ", "f", "o", "u", "n", "d", "_">>,
     SEPARATOR |-> <<"\n", "-", "-", "-", "\n", "\n">>,
     CODE_FENCE |-> <<Backquote, Backquote, Backquote>>,
     CODE_FENCE_END |-> <<"\n", Backquote, Backquote, Backquote>>,
     PLAINTEXT |-> <<"p", "l", "a", "i", "n", "t", "e", "x", "t">>]

\* MD.CODE_FENCE_START(lang)
CodeFenceStart(lang) == MD.CODE_FENCE \o lang \o <<"\n">>

\* The text of an optional string field of a record: "" when the record has
\* no such field or the field is undefined, so that the text is empty
\* exactly when the field is falsy.
TextOf(record, field) ==
    IF field \notin DOMAIN record THEN <<>>
    ELSE IF record[field] = None THEN <<>>
    ELSE record[field][1]

\* `${p.name}${p.type ? `: ${p.type}` : ""}`
FormatParam(p) ==
    p.name \o (IF TextOf(p, "type") # <<>>
               THEN <<":", " ">> \o TextOf(p, "type") ELSE <<>>)

RECURSIVE FormatParams(_)
\* signature.parameters.map(...)
FormatParams(parameters) ==
    IF parameters = <<>> THEN <<>>
    ELSE <<FormatParam(Head(parameters))>> \o FormatParams(Tail(parameters))

\* MarkdownGenerator._formatSignature
FormatSignature(signature) ==
    LET params == Join(FormatParams(signature.parameters), <<",", " ">>)
        returnType == IF TextOf(signature, "returnType") # <<>>
                      THEN <<":", " ">> \o TextOf(signature, "returnType") ELSE <<>>
        asyncPrefix == IF "isAsync" \in DOMAIN signature /\ signature.isAsync
                       THEN <<"a", "s", "y", "n", "c", " ">> ELSE <<>>
        tail == signature.name \o <<"(">> \o params \o <<")">> \o returnType
    IN  IF TextOf(signature, "className") # <<>>
        THEN <<"[">> \o TextOf(signature, "className") \o <<"]", " ">>
                 \o asyncPrefix \o tail
        ELSE asyncPrefix \o <<"f", "u", "n", "c", "t", "i", "o", "n", " ">> \o tail

RECURSIVE FormatSignatures(_)
\* signatures.map(this._formatSignature)
FormatSignatures(signatures) ==
    IF signatures = <<>> THEN <<>>
    ELSE <<FormatSignature(Head(signatures))>> \o FormatSignatures(Tail(signatures))

\* MarkdownGenerator._generateSignaturesBlock
GenerateSignaturesBlock(signatures, langId) ==
    IF Len(signatures) = 0 THEN MD.NO_FUNCTIONS_FOUND \o <<"\n">>
    ELSE MD.SIGNATURES_HEADER \o CodeFenceStart(langId)
             \o Join(FormatSignatures(signatures), <<"\n">>) \o MD.CODE_FENCE_END

\* MarkdownGenerator._generateFullSourceBlock
GenerateFullSourceBlock(fullCode, langId) ==
    MD.FULL_SOURCE_HEADER \o CodeFenceStart(langId) \o fullCode \o MD.CODE_FENCE_END

\* The content of generateFileDoc: the full source block when fullCode is
\* given and not empty, the signatures block otherwise.
GenerateContent(signatures, fullCode, langId) ==
    IF fullCode # None /\ fullCode[1] # <<>>
    THEN GenerateFullSourceBlock(fullCode[1], langId)
    ELSE GenerateSignaturesBlock(signatures, langId)

\* MarkdownGenerator.generateFileDoc with the registry map: the section
\* returned, or the TypeError raised by the call of getMarkdownLanguageId
\* on a parser that has no such method.  fullCode is None for undefined.
GenerateFileDoc(map, filePath, signatures, fullCode) ==
    LET parser == GetParserForFile(map, filePath) IN
    IF parser # None /\ parser[1].languageId = None
    THEN [threw |-> "TypeError", text |-> <<>>]
    ELSE [threw |-> "",
          text |-> MD.FILE_HEADER_PREFIX \o filePath \o <<"\n">>
                       \o GenerateContent(signatures, fullCode,
                              IF parser # None THEN parser[1].languageId[1]
                              ELSE MD.PLAINTEXT)
                       \o MD.SEPARATOR]

RECURSIVE RegisterAll(_, _)
\* The registerParser calls made at startup, one new instance of each
\* class in turn.
RegisterAll(map, c) ==
    IF c > Len(ParserClasses) THEN map
    ELSE RegisterAll(RegisterParser(map, NewParser(c, 1)), c + 1)

\* extensionToParserMap after startup.
StartupMap == RegisterAll(EmptyMap, 1)
(***************************************************************************)
(* 4.12 File walker.                                                       *)
(***************************************************************************)

\* DEFAULT_EXTENSIONS
DEFAULT_EXTENSIONS ==
    << <<".", "j", "s", "o", "n">>, <<".", "y", "a", "m", "l">>, <<".", "t", "s">>, <<".", "t", "s", "x">>, <<".", "j", "s">>, <<".", "j", "s", "x">>, <<".", "p", "y">>, <<".", "j", "a", "v", "a">>,
       <<".", "g", "o">>, <<".", "p", "h", "p">>, <<".", "r", "u", "s", "t">> >>

\* `options = {}`: no option given.
DefaultWalkOptions == [extensions |-> None, ignoreGit |-> None]

\* join(dir, entry) of node:path for a directory path and an entry name.
JoinPath(dir, entry) == dir \o <<"/">> \o entry

\* extensions.some((ext) => entry.endsWith(ext))
HasExtension(entry, extensions) ==
    \E i \in 1..Len(extensions) : EndsWith(entry, extensions[i])

RECURSIVE WalkEntries(_, _, _, _)
\* The for loop of walkSourceFiles over the entries of dir still to come:
\* the paths yielded, in order.  An entry is a record of its name, of what
\* stat says it is ("directory", "file" or "other"), of whether
\* isPathIgnoredByGit returns true for its path and, for a directory, of its
\* own entries as readdir lists them.
WalkEntries(dir, entries, extensions, ignoreGit) ==
    IF entries = <<>> THEN <<>>
    ELSE LET entry == Head(entries)
             fullPath == JoinPath(dir, entry.name)
         IN  (IF entry.kind = "directory"
              THEN IF ignoreGit /\ entry.ignored THEN <<>>
                   ELSE WalkEntries(fullPath, entry.entries, extensions, ignoreGit)
              ELSE IF entry.kind = "file" /\ HasExtension(entry.name, extensions)
              THEN IF ignoreGit /\ entry.ignored THEN <<>> ELSE <<fullPath>>
              ELSE <<>>)
                 \o WalkEntries(dir, Tail(entries), extensions, ignoreGit)

\* walkSourceFiles(dir, options) on a directory with the entries given.
WalkSourceFiles(dir, entries, options) ==
    WalkEntries(dir, entries,
                IF options.extensions # None THEN options.extensions[1]
                ELSE DEFAULT_EXTENSIONS,
                IF options.ignoreGit # None THEN options.ignoreGit[1] ELSE TRUE)
(***************************************************************************)
(* 4.13 Command: the result and the section of one file.                   *)
(***************************************************************************)

\* parser.extractSignatures(code) for a parser of the class named.  The
\* Java and Python extractors are not part of this model.
ExtractSignaturesOf(cls, c) ==
    CASE cls = "TypeScriptParser" -> TsExtractSignatures(c)
      [] cls = "GoParser" -> GoExtractSignatures(c)
      [] cls = "RustParser" -> RustParseAll(RustExtractFunctionMatches(c))
      [] cls = "PhpParser" -> PhpParseAll(PhpExtractFunctionMatches(c))

\* `const signatures = parser ? parser.extractSignatures(code) : []`
SignaturesOfFile(basePath, c) ==
    LET parser == GetParserForFile(StartupMap, basePath) IN
    IF parser = None THEN <<>> ELSE ExtractSignaturesOf(parser[1].cls, c)

\* The entry pushed to fileResults: `code` is left out with --functions-only.
FileResult(basePath, signatures, c, functionsOnly) ==
    [path |-> basePath, signatures |-> signatures,
     code |-> IF functionsOnly THEN None ELSE Some(c)]

\* The section generateDocument makes of an entry of fileResults.
SectionOf(file) == GenerateFileDoc(StartupMap, file.path, file.signatures, file.code)









(***************************************************************************)
(* 4.14 The walker's git-availability cache.  The module-level cache       *)
(* outlives every walk of the process; gitInstalled says whether spawning  *)
(* `git --version` exits with status 0.                                    *)
(***************************************************************************)

\* _gitAvailCache as the module is loaded.
InitialGitAvailCache == [checked |-> FALSE, available |-> FALSE, native |-> FALSE]

\* isGitAvailable(root): the cache after the call, the value returned and
\* the commands spawned.  A spawn that fails, by status or by raising, ends
\* with available false.
IsGitAvailable(cache, gitInstalled) ==
    IF cache.checked
    THEN [cache |-> cache, available |-> cache.available, spawned |-> <<>>]
    ELSE IF cache.native
    THEN [cache |-> [cache EXCEPT !.checked = TRUE, !.available = gitInstalled],
          available |-> gitInstalled,
          spawned |-> <<"git --version">>]
    ELSE [cache |-> [cache EXCEPT !.checked = TRUE, !.available = FALSE],
          available |-> FALSE,
          spawned |-> <<>>]

\* isPathIgnoredByGit(fullPath) for an entry: the cache after the call, the
\* value returned, the commands spawned and what decided ("none" outside a
\* repository, "git" for git check-ignore, "patterns" for the .gitignore
\* fallback).
IsPathIgnoredByGit(cache, entry, gitInstalled) ==
    IF ~entry.inRepo
    THEN [cache |-> cache, ignored |-> FALSE, spawned |-> <<>>, decidedBy |-> "none"]
    ELSE LET avail == IsGitAvailable(cache, gitInstalled) IN
         IF avail.available
         THEN [cache |-> avail.cache, ignored |-> entry.gitIgnores,
               spawned |-> Append(avail.spawned, "git check-ignore"),
               decidedBy |-> "git"]
         ELSE [cache |-> avail.cache, ignored |-> entry.patternIgnores,
               spawned |-> avail.spawned, decidedBy |-> "patterns"]

RECURSIVE WalkCachedEntries(_, _, _, _)
\* The for loop of walkSourceFiles over the source files left in the
\* directory, with what the walk did so far: the files yielded, the
\* commands spawned and what decided each entry's ignore status.
WalkCachedEntries(done, entries, ignoreGit, gitInstalled) ==
    IF entries = <<>> THEN done
    ELSE IF ~ignoreGit
    THEN WalkCachedEntries([done EXCEPT !.yielded = Append(@, Head(entries).name),
                                        !.decidedBy = Append(@, "none")],
                           Tail(entries), ignoreGit, gitInstalled)
    ELSE LET r == IsPathIgnoredByGit(done.cache, Head(entries), gitInstalled) IN
         WalkCachedEntries([cache |-> r.cache,
                            yielded |-> IF r.ignored THEN done.yielded
                                        ELSE Append(done.yielded, Head(entries).name),
                            spawned |-> done.spawned \o r.spawned,
                            decidedBy |-> Append(done.decidedBy, r.decidedBy)],
                           Tail(entries), ignoreGit, gitInstalled)

\* walkSourceFiles(dir, options) on a directory of source files, entered
\* with the cache left by the earlier walks.
WalkSourceFilesCached(cache, entries, options, gitInstalled) ==
    LET ignoreGit == IF options.ignoreGit = None THEN TRUE ELSE options.ignoreGit[1]
        native == IF options.nativeGit = None THEN FALSE ELSE options.nativeGit[1]
    IN  WalkCachedEntries([cache |-> [cache EXCEPT !.native = native],
                           yielded |-> <<>>, spawned |-> <<>>, decidedBy |-> <<>>],
                          entries, ignoreGit, gitInstalled)

(***************************************************************************)
(* Specification of the scanner: every string over the scan alphabet,      *)
(* every start index up to one past the end, both delimiter pairs.         *)
(***************************************************************************)

MaxScanLen == 5

ScanAlphabet == {"(", ")", "[", "]"}

DelimiterPairs == {<<"(", ")">>, <<"[", "]">>}

InitScan ==
    /\ pc = "call"
    /\ code \in StringsUpTo(ScanAlphabet, MaxScanLen)
    /\ \E start \in 0..(MaxScanLen + 1), d \in DelimiterPairs :
          /\ start <= Len(code) + 1
          /\ args = [start |-> start, open |-> d[1], close |-> d[2]]
    /\ matches = <<>>
    /\ ret = <<>>

CallTsReadBalanced ==
    /\ pc = "call"
    /\ pc' = "TsReadBalanced"
    /\ ret' = TsReadBalanced(code, args.start, args.open, args.close)
    /\ UNCHANGED <<code, args, matches>>

CallGoReadBalanced ==
    /\ pc = "call"
    /\ pc' = "GoReadBalanced"
    /\ ret' = GoReadBalanced(code, args.start, args.open, args.close)
    /\ UNCHANGED <<code, args, matches>>

CallTsReadParamGroup ==
    /\ pc = "call"
    /\ args.open = "("
    /\ pc' = "TsReadParamGroup"
    /\ ret' = TsReadParamGroup(code, args.start)
    /\ UNCHANGED <<code, args, matches>>

NextScan == CallTsReadBalanced \/ CallGoReadBalanced \/ CallTsReadParamGroup

SpecScan == InitScan /\ [][NextScan]_vars

(***************************************************************************)
(* The scanner's contract, stated without the loop: the running depth at k *)
(* is the number of opens minus the number of closes in src[start..k].     *)
(***************************************************************************)

RunningDepth(src, start, k, open, close) ==
    Cardinality({i \in start..k : At(src, i) = open})
        - Cardinality({i \in start..k : At(src, i) = close})

ReturnsToZero(src, start, open, close) ==
    {k \in start..(Len(src) - 1) : RunningDepth(src, start, k, open, close) = 0}

FirstReturnToZero(src, start, open, close) ==
    CHOOSE k \in ReturnsToZero(src, start, open, close) :
        \A j \in ReturnsToZero(src, start, open, close) : k <= j

ScanStartsAtOpen == At(code, args.start) = args.open

ScanBalanced ==
    ScanStartsAtOpen /\ ReturnsToZero(code, args.start, args.open, args.close) # {}

ScanUnbalanced ==
    ScanStartsAtOpen /\ ReturnsToZero(code, args.start, args.open, args.close) = {}

\* C1: when src[start] is the opening delimiter and it has a matching close,
\* the content is exactly src[start..k], k the first index at which the
\* running depth returns to 0, and the end index is k + 1 (Go: the rest is
\* src[k+1..]).
C1_BalancedContent ==
    (pc \in {"TsReadBalanced", "GoReadBalanced"} /\ ScanBalanced) =>
        LET k == FirstReturnToZero(code, args.start, args.open, args.close) IN
        /\ ret.content = SubSeq(code, args.start + 1, k + 1)
        /\ pc = "TsReadBalanced" => ret.end = k + 1
        /\ pc = "GoReadBalanced" => ret.rest = SubSeq(code, k + 2, Len(code))

\* C1 witness: a nested group that ends before the end of the string has
\* been read.
C1_Witness ==
    /\ pc = "TsReadBalanced"
    /\ ScanBalanced
    /\ Len(ret.content) >= 4
    /\ ret.end < Len(code)

\* C2: when src[start] is the opening delimiter and the depth never returns
\* to 0, the content is src[start..] and the end index is the length of src
\* (Go: the rest is empty); the index returned for an opener is never beyond
\* the length of src.
C2_UnbalancedFallback ==
    /\ (pc \in {"TsReadBalanced", "GoReadBalanced"} /\ ScanUnbalanced) =>
           /\ ret.content = SubSeq(code, args.start + 1, Len(code))
           /\ pc = "TsReadBalanced" => ret.end = Len(code)
           /\ pc = "GoReadBalanced" => ret.rest = <<>>
    /\ (pc = "TsReadBalanced" /\ ScanStartsAtOpen) =>
           (ret.end > args.start /\ ret.end <= Len(code))

\* C2 witness: an unbalanced group with a close inside it was read to the
\* end of the string.
C2_Witness ==
    /\ pc = "GoReadBalanced"
    /\ ScanUnbalanced
    /\ \E i \in 1..Len(ret.content) : ret.content[i] = args.close
    /\ Len(ret.content) >= 3

\* C3: when src[start] is not the opening delimiter (start past the end
\* included), the content is empty and the index is the unchanged start
\* (Go: the rest is the whole src), and the TypeScript callers skip the
\* candidate.
C3_NonOpenerStart ==
    (pc # "call" /\ ~ScanStartsAtOpen) =>
        /\ pc = "TsReadBalanced" => (ret.content = <<>> /\ ret.end = args.start)
        /\ pc = "GoReadBalanced" => (ret.content = <<>> /\ ret.rest = code)
        /\ pc = "TsReadParamGroup" => ret.skip

\* C3 witness: a caller met a closing parenthesis followed by a balanced
\* group at its start index and skipped.
C3_Witness ==
    /\ pc = "TsReadParamGroup"
    /\ At(code, args.start) = ")"
    /\ At(code, args.start + 1) = "("
    /\ At(code, args.start + 2) = ")"
    /\ ret.skip

\* C3 witness for a start index past the end of the string.
C3_WitnessPastEnd ==
    pc = "TsReadBalanced" /\ args.start > Len(code) /\ ret.content = <<>>

(***************************************************************************)
(* Specification of the Go extractor on arbitrary snippets: every          *)
(* concatenation of up to MaxGoTokens tokens, truncated, unbalanced and    *)
(* keyword-only texts included.                                            *)
(***************************************************************************)

MaxGoTokens == 5

GoTokens == {KwFunc, <<" ">>, <<"(">>, <<")">>, <<"{">>, <<"x">>, <<"\n">>}

InitGoSnippet ==
    /\ pc = "call"
    /\ \E n \in 0..MaxGoTokens : \E tokens \in [1..n -> GoTokens] :
          code = Concat(tokens)
    /\ args = [parser |-> "go"]
    /\ matches = <<>>
    /\ ret = <<>>

\* BaseParser.extractSignatures on a GoParser: the fragments, then their
\* normalization with the nulls filtered out.
CallGoExtractSignatures ==
    /\ pc = "call"
    /\ args.parser = "go"
    /\ pc' = "GoExtractSignatures"
    /\ matches' = GoExtractFunctionMatches(code)
    /\ ret' = GoParseAll(matches')
    /\ UNCHANGED <<code, args>>

NextGoSnippet == CallGoExtractSignatures

SpecGoSnippet == InitGoSnippet /\ [][NextGoSnippet]_vars

C4_WitnessTruncated ==
    /\ pc = "GoExtractSignatures"
    /\ code = KwFunc \o <<" ", "x", "(", "x">>
    /\ Len(ret) = 1

(***************************************************************************)
(* Specification of the Go extractor on well-formed declarations: one      *)
(* declaration, written 1..MaxGoDecls times in the file, built from a      *)
(* receiver, a name and up to MaxGoSegments comma-separated parameter      *)
(* segments.                                                               *)
(***************************************************************************)

MaxGoDecls == 2

MaxGoSegments == 2

\* (none), `c *Calc`, `s *pkg.Svc[T]`, `m MyMap[K,V]`, `m MyMap[K, V]`,
\* `s *Svc[pkg.T]`
GoReceiverChoices ==
    { <<>>,
      <<"c", " ", "*", "C", "a", "l", "c">>,
      <<"s", " ", "*", "p", "k", "g", ".", "S", "v", "c", "[", "T", "]">>,
      <<"m", " ", "M", "y", "M", "a", "p", "[", "K", ",", "V", "]">>,
      <<"m", " ", "M", "y", "M", "a", "p", "[", "K", ",", " ", "V", "]">>,
      <<"s", " ", "*", "S", "v", "c", "[", "p", "k", "g", ".", "T", "]">> }

\* `init`, `Add`
GoNameChoices == { <<"i", "n", "i", "t">>, <<"A", "d", "d">> }

\* `a` and `int` (bare), `b int` (typed), `func(int) error` (unnamed function
\* type), `p Pair[K, V]` (generic instantiation), `cb func(x, y int) bool`
GoSegmentChoices ==
    { <<"a">>,
      <<"i", "n", "t">>,
      <<"b", " ", "i", "n", "t">>,
      <<"f", "u", "n", "c", "(", "i", "n", "t", ")", " ", "e", "r", "r", "o", "r">>,
      <<"p", " ", "P", "a", "i", "r", "[", "K", ",", " ", "V", "]">>,
      <<"c", "b", " ", "f", "u", "n", "c", "(", "x", ",", " ", "y", " ", "i", "n", "t", ")", " ", "b", "o", "o", "l">> }

\* The source text of one declaration.
GoRenderDecl(receiver, name, segments) ==
    KwFunc \o <<" ">>
        \o (IF receiver = <<>> THEN <<>> ELSE <<"(">> \o receiver \o <<")", " ">>)
        \o name \o <<"(">> \o Join(segments, <<",", " ">>) \o <<")">>
        \o <<" ", "{", "\n", "}", "\n">>

RECURSIVE Repeat(_, _)
Repeat(text, n) == IF n = 0 THEN <<>> ELSE text \o Repeat(text, n - 1)

InitGoDecl ==
    /\ pc = "call"
    /\ \E receiver \in GoReceiverChoices, name \in GoNameChoices,
          k \in 0..MaxGoSegments, copies \in 1..MaxGoDecls :
          \E segments \in [1..k -> GoSegmentChoices] :
             /\ args = [parser |-> "go", receiver |-> receiver, name |-> name,
                        segments |-> segments, copies |-> copies]
             /\ code = Repeat(GoRenderDecl(receiver, name, segments), copies)
    /\ matches = <<>>
    /\ ret = <<>>

NextGoDecl == CallGoExtractSignatures

SpecGoDecl == InitGoDecl /\ [][NextGoDecl]_vars

\* The parameter text of the declaration in the file.
GoDeclParamsText == Join(args.segments, <<",", " ">>)

\* The name a parameter segment declares: the placeholder of an unnamed
\* function type, else the segment's first word.
GoDeclaredName(segment) ==
    IF StartsWith(segment, KwFunc \o <<"(">>) THEN AnonymousName
    ELSE Head(SplitWhitespace(segment))

\* A segment whose type has a comma inside square brackets.
HasBracketComma(segment) ==
    \E i \in 1..Len(segment) : \E j \in (i + 1)..Len(segment) :
        \E k \in (j + 1)..Len(segment) :
            segment[i] = "[" /\ segment[j] = "," /\ segment[k] = "]"

\* C5: the fragment list of one extraction run holds no two equal fragments.
C5_NoDuplicateFragments ==
    pc = "GoExtractSignatures" =>
        \A i, j \in 1..Len(matches) : i # j => matches[i] # matches[j]

\* C6: the Params of a signature are the declared parameters in source order,
\* none dropped, for Go lists that mix bare names, typed segments and unnamed
\* func(...) type segments; an empty parameter text gives no Param.
C6_ParameterOrder ==
    (pc = "GoExtractSignatures"
        /\ \A k \in 1..Len(args.segments) : ~HasBracketComma(args.segments[k])) =>
        \A i \in 1..Len(ret) :
            /\ Len(ret[i].parameters) = Len(args.segments)
            /\ \A k \in 1..Len(args.segments) :
                  ret[i].parameters[k].name = GoDeclaredName(args.segments[k])

\* C7: the Go normalizer splits the parameter text only at commas outside
\* every bracket pair ( ) < > [ ] { }: the segments are the declared
\* parameters, and each gives one Param.
C7_DepthAwareSplit ==
    pc = "GoExtractSignatures" =>
        /\ GoSegments(GoDeclParamsText) = args.segments
        /\ \A i \in 1..Len(ret) : Len(ret[i].parameters) = Len(args.segments)

\* C10: className, when present, is a plain identifier: no `*`, no `.`, no
\* generic argument text.
C10_ClassNameBare ==
    pc = "GoExtractSignatures" =>
        \A i \in 1..Len(ret) :
            ret[i].className # None =>
                /\ IsIdentStart(At(ret[i].className[1], 0))
                /\ \A k \in 1..Len(ret[i].className[1]) :
                      ret[i].className[1][k] \in WordChars

(***************************************************************************)
(* Specification of the TypeScript normalizer's parameter parser: every    *)
(* parameter text made of up to MaxTsSegments declared parameters.         *)
(***************************************************************************)

MaxTsSegments == 3

\* Declared parameters, each with its name and its type annotation:
\* `a`, `b: T`, `cb: (x: T) => U`, `m: Map<K, V[]>`, `o: { k: T }`
TsParamChoices ==
    { [name |-> <<"a">>, type |-> None],
      [name |-> <<"b">>, type |-> Some(<<"T">>)],
      [name |-> <<"c", "b">>,
       type |-> Some(<<"(", "x", ":", " ", "T", ")", " ", "=", ">", " ", "U">>)],
      [name |-> <<"m">>,
       type |-> Some(<<"M", "a", "p", "<", "K", ",", " ", "V", "[", "]", ">">>)],
      [name |-> <<"o">>,
       type |-> Some(<<"{", " ", "k", ":", " ", "T", " ", "}">>)] }

\* The source text of a declared parameter: `name` or `name: type`.
TsRenderParam(p) ==
    IF p.type = None THEN p.name ELSE p.name \o <<":", " ">> \o p.type[1]

RECURSIVE TsRenderParams(_)
\* The parameter text of a declaration: its parameters joined by `, `.
TsRenderParams(params) ==
    IF params = <<>> THEN <<>>
    ELSE IF Len(params) = 1 THEN TsRenderParam(Head(params))
    ELSE TsRenderParam(Head(params)) \o <<",", " ">> \o TsRenderParams(Tail(params))

InitTsParams ==
    /\ pc = "call"
    /\ \E params \in StringsUpTo(TsParamChoices, MaxTsSegments) :
          /\ args = [parser |-> "ts", params |-> params]
          /\ code = TsRenderParams(params)
    /\ matches = <<>>
    /\ ret = <<>>

\* TypeScriptParser.parseParameters(code)
CallTsParseParameters ==
    /\ pc = "call"
    /\ pc' = "TsParseParameters"
    /\ ret' = TsParseParameters(code)
    /\ UNCHANGED <<code, args, matches>>

NextTsParams == CallTsParseParameters

SpecTsParams == InitTsParams /\ [][NextTsParams]_vars

\* The source text of the k-th declared parameter of the call.
TsSegment(k) == TsRenderParam(args.params[k])

MaxTsParams == 2

\* function declaration, `const name = (...) =>` binding, class method
TsFormChoices == {"function", "arrow", "method"}

\* `fn`, `run`
TsNameChoices == { <<"f", "n">>, <<"r", "u", "n">> }

\* no return annotation, or `T`
TsReturnChoices == { None, Some(<<"T">>) }

\* The source text of a declaration.
TsRenderDecl(form, name, params, returnType) ==
    LET group == <<"(">> \o TsRenderParams(params) \o <<")">>
                     \o (IF returnType = None THEN <<>>
                         ELSE <<":", " ">> \o returnType[1])
    IN  IF form = "function"
        THEN Kw.function \o <<" ">> \o name \o group \o <<" ", "{", "\n", "}", "\n">>
        ELSE IF form = "arrow"
        THEN Kw.const \o <<" ">> \o name \o <<" ", "=", " ">> \o group
                 \o <<" ">> \o Kw.arrow \o <<" ", "{", "\n", "}", "\n">>
        ELSE Kw.class \o <<" ", "B", "o", "x", " ", "{", "\n", " ", " ">> \o name \o group
                 \o <<" ", "{", "\n", " ", " ", "}", "\n", "}", "\n">>

InitTsDecl ==
    /\ pc = "call"
    /\ \E form \in TsFormChoices, name \in TsNameChoices,
          returnType \in TsReturnChoices,
          params \in StringsUpTo(TsParamChoices, MaxTsParams) :
          /\ args = [parser |-> "ts", form |-> form, name |-> name,
                     params |-> params, returnType |-> returnType]
          /\ code = TsRenderDecl(form, name, params, returnType)
    /\ matches = <<>>
    /\ ret = <<>>

\* BaseParser.extractSignatures(code) on the TypeScript extractor.
CallTsExtractSignatures ==
    /\ pc = "call"
    /\ pc' = "TsExtractSignatures"
    /\ matches' = TsExtractFunctionMatches(code)
    /\ ret' = TsParseAll(matches')
    /\ UNCHANGED <<code, args>>

NextTsDecl == CallTsExtractSignatures

SpecTsDecl == InitTsDecl /\ [][NextTsDecl]_vars

\* C8: for each supported declaration form, a parameter list with nested
\* function types and generic arguments gives exactly one Param per declared
\* parameter, each with its complete type text.
C8_NestedParameters ==
    pc = "TsExtractSignatures" =>
        /\ Len(ret) = 1
        /\ ret[1].name = args.name
        /\ ret[1].parameters = args.params


(***************************************************************************)
(* Declarations with and without the `async` modifier.                     *)
(***************************************************************************)

MaxAsyncParams == 2

\* Declared parameters: `a`, `async`, `opts: { async: T }`
TsAsyncParamChoices ==
    { [name |-> <<"a">>, type |-> None],
      [name |-> Kw.async, type |-> None],
      [name |-> <<"o", "p", "t", "s">>,
       type |-> Some(<<"{", " ">> \o Kw.async \o <<":", " ", "T", " ", "}">>)] }

\* The source text of a declaration that carries the `async` modifier when
\* marked is TRUE and does not carry it otherwise.
TsRenderAsyncDecl(form, marked, name, params) ==
    LET modifier == IF marked THEN Kw.async \o <<" ">> ELSE <<>>
        group == <<"(">> \o TsRenderParams(params) \o <<")">>
    IN  IF form = "function"
        THEN modifier \o Kw.function \o <<" ">> \o name \o group
                 \o <<" ", "{", "\n", "}", "\n">>
        ELSE IF form = "arrow"
        THEN Kw.const \o <<" ">> \o name \o <<" ", "=", " ">> \o modifier \o group
                 \o <<" ">> \o Kw.arrow \o <<" ", "{", "\n", "}", "\n">>
        ELSE Kw.class \o <<" ", "B", "o", "x", " ", "{", "\n", " ", " ">>
                 \o modifier \o name \o group
                 \o <<" ", "{", "\n", " ", " ", "}", "\n", "}", "\n">>

InitTsAsync ==
    /\ pc = "call"
    /\ \E form \in TsFormChoices, marked \in BOOLEAN, name \in TsNameChoices,
          params \in StringsUpTo(TsAsyncParamChoices, MaxAsyncParams) :
          /\ args = [parser |-> "ts", form |-> form, marked |-> marked,
                     name |-> name, params |-> params]
          /\ code = TsRenderAsyncDecl(form, marked, name, params)
    /\ matches = <<>>
    /\ ret = <<>>

SpecTsAsync == InitTsAsync /\ [][CallTsExtractSignatures]_vars

\* C11: a signature has isAsync only when the declaration it was extracted
\* from carries the `async` modifier itself; a declaration that is not
\* marked async never gets isAsync, whatever its parameters are called and
\* whatever their types contain.
C11_AsyncOnlyWhenMarked ==
    pc = "TsExtractSignatures" =>
        \A i \in 1..Len(ret) : ret[i].isAsync => args.marked

(***************************************************************************)
(* Rust `impl` and `trait` blocks.                                         *)
(***************************************************************************)

MaxRustMethods == 2

\* The names of the members of a block, by position: `new`, `add`, `get`,
\* `set`.
RustNameChoices ==
    << <<"n", "e", "w">>, <<"a", "d", "d">>, <<"g", "e", "t">>, <<"s", "e", "t">> >>

\* The members a block declares, each with its receiver (none, `self`,
\* `&self` or `&mut self`), its other parameters (none, or `a: i32`) and
\* its return type (none, or `i32`).
RustMethodChoices ==
    [receiver : {None, Some(RustKw.self), Some(RustKw.refSelf), Some(RustKw.refMutSelf)},
     params : {<<>>, << [name |-> <<"a">>, type |-> Some(<<"i", "3", "2">>),
                         isMutable |-> FALSE] >>},
     returnType : {None, Some(<<"i", "3", "2">>)}]

\* The parameter list of a member as the source declares it.
RustRenderParamList(m) ==
    Join((IF m.receiver = None THEN <<>> ELSE <<m.receiver[1]>>)
             \o [k \in 1..Len(m.params) |->
                    m.params[k].name \o <<":", " ">> \o m.params[k].type[1]],
         <<",", " ">>)

RECURSIVE RustRenderMembers(_, _, _)
\* The source text of the members from the k-th on: with a body in an
\* `impl` block, as a declaration ending in `;` in a `trait` block.
RustRenderMembers(kind, methods, k) ==
    IF k > Len(methods) THEN <<>>
    ELSE <<" ", " ", " ", " ">> \o RustKw.fn \o <<" ">> \o RustNameChoices[k]
             \o <<"(">> \o RustRenderParamList(methods[k]) \o <<")">>
             \o (IF methods[k].returnType = None THEN <<>>
                 ELSE <<" ">> \o RustKw.arrow \o <<" ">> \o methods[k].returnType[1])
             \o (IF kind = "impl"
                 THEN <<" ", "{", "\n", " ", " ", " ", " ", " ", " ", " ", " ", "a", "\n",
                        " ", " ", " ", " ", "}", "\n">>
                 ELSE <<";", "\n">>)
             \o RustRenderMembers(kind, methods, k + 1)

\* `impl Calc { ... }` or `trait Calc { ... }`
RustRenderBlock(kind, methods) ==
    (IF kind = "impl" THEN RustKw.impl ELSE RustKw.trait)
        \o <<" ", "C", "a", "l", "c", " ", "{", "\n">>
        \o RustRenderMembers(kind, methods, 1) \o <<"}", "\n">>

InitRust ==
    /\ pc = "call"
    /\ \E kind \in {"impl", "trait"},
          methods \in StringsUpTo(RustMethodChoices, MaxRustMethods) :
          /\ args = [parser |-> "rust", kind |-> kind, methods |-> methods]
          /\ code = RustRenderBlock(kind, methods)
    /\ matches = <<>>
    /\ ret = <<>>

\* BaseParser.extractSignatures(code) on the Rust extractor.
CallRustExtractSignatures ==
    /\ pc = "call"
    /\ pc' = "RustExtractSignatures"
    /\ matches' = RustExtractFunctionMatches(code)
    /\ ret' = RustParseAll(matches')
    /\ UNCHANGED <<code, args>>

SpecRust == InitRust /\ [][CallRustExtractSignatures]_vars

\* The name a member of the block is reported under: `Calc::name`.
RustMemberName(k) == <<"C", "a", "l", "c">> \o RustKw.path \o RustNameChoices[k]

\* The parameters of a signature other than the receiver.
RustOtherParams(sig) == SelectSeq(sig.parameters, LAMBDA p : p.name # RustKw.self)

\* C12: every `fn` of an `impl` or `trait` body, whatever its position in
\* the body and whatever braces earlier bodies contain, is emitted exactly
\* once as `Type::method`, with its declared parameters in order and its
\* `->` return type.
C12_MembersEmittedOnce ==
    pc = "RustExtractSignatures" =>
        /\ Len(ret) = Len(args.methods)
        /\ \A k \in 1..Len(ret) :
              /\ ret[k].name = RustMemberName(k)
              /\ RustOtherParams(ret[k]) = args.methods[k].params
              /\ ret[k].returnType = args.methods[k].returnType

\* C13: a signature extracted from an `impl` body is marked isMethod and
\* starts with a `self` parameter exactly when its declaration has a
\* receiver; an associated function declared without `self` gains none.
C13_ReceiverIffDeclared ==
    (pc = "RustExtractSignatures" /\ args.kind = "impl") =>
        \A i \in 1..Len(ret) : \A k \in 1..Len(args.methods) :
            ret[i].name = RustMemberName(k) =>
                /\ ret[i].isMethod <=> args.methods[k].receiver # None
                /\ (ret[i].parameters # <<>> /\ ret[i].parameters[1].name = RustKw.self)
                       <=> args.methods[k].receiver # None

(***************************************************************************)
(* PHP files with a class and global functions.                            *)
(***************************************************************************)

MaxPhpMethods == 2

\* The names of the methods of the class, by position: `add`, `get`, `set`.
PhpNameChoices == << <<"a", "d", "d">>, <<"g", "e", "t">>, <<"s", "e", "t">> >>

\* The methods a class declares, each with or without `public`, with its
\* parameters (none, or `int $a`) and its return type (none, or `int`).
PhpMethodChoices ==
    [public : BOOLEAN,
     params : {<<>>, << [name |-> <<"a">>, type |-> Some(<<"i", "n", "t">>)] >>},
     returnType : {None, Some(<<"i", "n", "t">>)}]

\* `function name(params): returnType {` and its closing brace, indented.
PhpRenderFunction(indent, name, m) ==
    indent \o (IF m.public THEN <<"p", "u", "b", "l", "i", "c", " ">> ELSE <<>>)
        \o PhpKw.function \o <<" ">> \o name \o <<"(">>
        \o Join([k \in 1..Len(m.params) |->
                    m.params[k].type[1] \o <<" ", "$">> \o m.params[k].name],
                <<",", " ">>)
        \o <<")">>
        \o (IF m.returnType = None THEN <<>> ELSE <<":", " ">> \o m.returnType[1])
        \o <<" ", "{", "\n">> \o indent \o <<"}", "\n">>

\* `<?php`, the class `Box` with its methods when it has any, and the
\* global function `run` when there is one.
PhpRenderFile(methods, global) ==
    <<"<", "?", "p", "h", "p", "\n">>
        \o (IF methods = <<>> THEN <<>>
            ELSE PhpKw.class \o <<" ", "B", "o", "x", " ", "{", "\n">>
                     \o Concat([k \in 1..Len(methods) |->
                                   PhpRenderFunction(<<" ", " ">>, PhpNameChoices[k],
                                                     methods[k])])
                     \o <<"}", "\n">>)
        \o (IF global
            THEN PhpRenderFunction(<<>>, <<"r", "u", "n">>,
                                   [public |-> FALSE, params |-> <<>>, returnType |-> None])
            ELSE <<>>)

InitPhp ==
    /\ pc = "call"
    /\ \E methods \in StringsUpTo(PhpMethodChoices, MaxPhpMethods), global \in BOOLEAN :
          /\ args = [parser |-> "php", methods |-> methods, global |-> global]
          /\ code = PhpRenderFile(methods, global)
    /\ matches = <<>>
    /\ ret = <<>>

\* BaseParser.extractSignatures(code) on the PHP extractor.
CallPhpExtractSignatures ==
    /\ pc = "call"
    /\ pc' = "PhpExtractSignatures"
    /\ matches' = PhpExtractFunctionMatches(code)
    /\ ret' = PhpParseAll(matches')
    /\ UNCHANGED <<code, args>>

SpecPhp == InitPhp /\ [][CallPhpExtractSignatures]_vars

\* C14: each method of a PHP class body yields exactly one signature, and
\* that signature carries the className; the global-function pass adds no
\* second one for it.
C14_MethodReportedOnce ==
    pc = "PhpExtractSignatures" =>
        \A k \in 1..Len(args.methods) :
            /\ Cardinality({i \in 1..Len(ret) : ret[i].name = PhpNameChoices[k]}) = 1
            /\ \A i \in 1..Len(ret) :
                  ret[i].name = PhpNameChoices[k] => ret[i].className = Some(<<"B", "o", "x">>)

(***************************************************************************)
(* One declaration among comment delimiters.                               *)
(***************************************************************************)

MaxTokensBefore == 2

MaxTokensAfter == 3

\* `//`, `/*`, `*/` and the line break
CommentTokens == { <<"/", "/">>, <<"/", "*">>, <<"*", "/">>, <<"\n">> }

\* The declaration of `fn` in the language of the extractor.
CommentedDecl(parser) ==
    IF parser = "go" THEN <<"f", "u", "n", "c", " ", "f", "n", "(", ")", " ", "{", "}">>
    ELSE Kw.function \o <<" ", "f", "n", "(", ")", " ", "{", "}">>

\* The tokens before the declaration, the declaration and the tokens after
\* it, each followed by a space.
RenderCommented(before, decl, after) ==
    Concat([k \in 1..Len(before) |-> before[k] \o <<" ">>]) \o decl
        \o Concat([k \in 1..Len(after) |-> <<" ">> \o after[k]])

RECURSIVE InsideComment(_, _, _, _)
\* Whether the characters from..to-1 of s all lie inside one comment, as
\* the lexical grammar of the three languages reads s from index i on,
\* outside any comment there: `//` runs up to the line break, `/*` up to
\* and including the next `*/`.  A `/*` that is never closed makes no
\* comment.
InsideComment(s, i, from, to) ==
    LET opens == {IndexOf(s, <<"/", "/">>, i), IndexOf(s, <<"/", "*">>, i)} \ {-1}
        o == MinOf(opens)
        close == IndexOf(s, <<"*", "/">>, o + 2)
        e == IF At(s, o + 1) = "/" THEN RunEndNot(s, o + 2, LineTerminators)
             ELSE close + 2
    IN  IF opens = {} THEN FALSE
        ELSE IF At(s, o + 1) = "*" /\ close = -1 THEN FALSE
        ELSE IF from < o THEN FALSE
        ELSE IF to <= e THEN TRUE
        ELSE IF from < e THEN FALSE
        ELSE InsideComment(s, e, from, to)

InitCommented ==
    /\ pc = "call"
    /\ \E parser \in {"ts", "go", "php"},
          before \in StringsUpTo(CommentTokens, MaxTokensBefore),
          after \in StringsUpTo(CommentTokens, MaxTokensAfter) :
          /\ code = RenderCommented(before, CommentedDecl(parser), after)
          /\ args = [parser |-> parser, before |-> before, after |-> after,
                     from |-> Len(RenderCommented(before, <<>>, <<>>)),
                     to |-> Len(RenderCommented(before, CommentedDecl(parser), <<>>))]
    /\ matches = <<>>
    /\ ret = <<>>

\* BaseParser.extractSignatures(code) on the extractor args.parser names.
CallExtractSignatures ==
    /\ pc = "call"
    /\ pc' = "extractSignatures"
    /\ matches' = IF args.parser = "ts" THEN TsExtractFunctionMatches(code)
                  ELSE IF args.parser = "go" THEN GoExtractFunctionMatches(code)
                  ELSE PhpExtractFunctionMatches(code)
    /\ ret' = IF args.parser = "ts" THEN TsParseAll(matches')
              ELSE IF args.parser = "go" THEN GoParseAll(matches')
              ELSE PhpParseAll(matches')
    /\ UNCHANGED <<code, args>>

SpecCommented == InitCommented /\ [][CallExtractSignatures]_vars

\* C15: a declaration that lies entirely inside a line comment or a block
\* comment never produces a signature, for every arrangement of `//`,
\* `/*` and `*/` on the same and on adjacent lines.
C15_NoMatchInsideComment ==
    (pc = "extractSignatures" /\ InsideComment(code, 0, args.from, args.to)) =>
        ret = <<>>

(***************************************************************************)
(* Repeated extraction calls on one extractor instance.                    *)
(***************************************************************************)

MaxCalls == 3

\* Declarations of `name` in Go, TypeScript or PHP, and Rust, one per line.
RepeatSource(name) ==
    <<"f", "u", "n", "c", " ">> \o name \o <<"(", ")", " ", "{", "}", "\n">>
        \o Kw.function \o <<" ">> \o name \o <<"(", ")", " ", "{", "}", "\n">>
        \o RustKw.fn \o <<" ">> \o name \o <<"(", ")", " ", "{", "\n", "}", "\n">>

\* The texts the calls are made on: the empty text, the declarations of
\* `fn` and the declarations of `run`.
RepeatSources == { <<>>, RepeatSource(<<"f", "n">>), RepeatSource(<<"r", "u", "n">>) }

\* The fragments kept by the previous call, instead of an empty list.
KeptMatches(previous) == previous

\* `const matches: string[] = []`: the list of fragments an extraction call
\* starts with, whatever the previous call on the instance has collected.
NewMatches(previous) == <<>>

InitRepeat ==
    /\ pc = "call"
    /\ \E parser \in {"ts", "go", "rust", "php"} : args = [parser |-> parser, calls |-> <<>>]
    /\ code = <<>>
    /\ matches = <<>>
    /\ ret = <<>>

\* BaseParser.extractSignatures(s) on the instance, after the calls made on
\* it so far; the call and its result are appended to args.calls.
CallExtractAgain ==
    /\ Len(args.calls) < MaxCalls
    /\ \E s \in RepeatSources :
          /\ code' = s
          /\ matches' = NewMatches(matches)
                            \o (IF args.parser = "ts" THEN TsExtractFunctionMatches(s)
                                ELSE IF args.parser = "go" THEN GoExtractFunctionMatches(s)
                                ELSE IF args.parser = "rust"
                                THEN RustExtractFunctionMatches(s)
                                ELSE PhpExtractFunctionMatches(s))
    /\ ret' = IF args.parser = "ts" THEN TsParseAll(matches')
              ELSE IF args.parser = "go" THEN GoParseAll(matches')
              ELSE IF args.parser = "rust" THEN RustParseAll(matches')
              ELSE PhpParseAll(matches')
    /\ args' = [args EXCEPT !.calls = Append(@, [s |-> code', out |-> ret'])]
    /\ pc' = "extractSignatures"

SpecRepeat == InitRepeat /\ [][CallExtractAgain]_vars

MaxRegistryCalls == 3

\* The parsers handed to registerParser: an instance of each extractor
\* class, and a second instance of the first two.
RegistryParsers ==
    {NewParser(c, 1) : c \in 1..Len(ParserClasses)}
        \cup {NewParser(c, 2) : c \in {1, 2}}

\* The paths looked up: one for each kind of extension, with and without
\* directories, a second `.` in the name, an upper-case extension, a name
\* without extension and a name that starts with its only `.`.
RegistryPaths ==
    { <<"a", ".", "t", "s">>, <<"s", "r", "c", "/", "a", ".", "t", "s", "x">>, <<"a", ".", "j", "s">>, <<"m", "a", "i", "n", ".", "g", "o">>, <<"A", ".", "j", "a", "v", "a">>, <<"l", "i", "b", ".", "r", "s">>,
      <<"a", ".", "b", ".", "p", "y">>, <<"x", ".", "p", "h", "p">>, <<"a", ".", "T", "S">>, <<"M", "a", "k", "e", "f", "i", "l", "e">>, <<".", "p", "h", "p">>, <<"s", "r", "c", ".", "g", "o", "/", "R", "E", "A", "D", "M", "E", 
        ".", "m", "d">> }

InitRegistry ==
    /\ pc = "start"
    /\ args = [map |-> EmptyMap, log |-> <<>>]
    /\ code = <<>>
    /\ matches = <<>>
    /\ ret = None

\* MarkdownGenerator.registerParser(parser)
CallRegisterParser ==
    /\ Len(args.log) < MaxRegistryCalls
    /\ \E parser \in RegistryParsers :
          args' = [map |-> RegisterParser(args.map, parser),
                   log |-> Append(args.log, [op |-> "registerParser",
                                             parser |-> parser])]
    /\ pc' = "registerParser"
    /\ UNCHANGED <<code, matches, ret>>

\* MarkdownGenerator.clearParsers()
CallClearParsers ==
    /\ Len(args.log) < MaxRegistryCalls
    /\ args' = [map |-> ClearParsers(args.map),
                log |-> Append(args.log, [op |-> "clearParsers"])]
    /\ pc' = "clearParsers"
    /\ UNCHANGED <<code, matches, ret>>

\* MarkdownGenerator.getParserForFile(filePath)
CallGetParserForFile ==
    /\ \E filePath \in RegistryPaths :
          /\ code' = filePath
          /\ ret' = GetParserForFile(args.map, filePath)
    /\ pc' = "getParserForFile"
    /\ UNCHANGED <<args, matches>>

NextRegistry == CallRegisterParser \/ CallClearParsers \/ CallGetParserForFile

SpecRegistry == InitRegistry /\ [][NextRegistry]_vars

\* The elements of a list.
Elements(list) == {list[i] : i \in 1..Len(list)}

RECURSIVE LastRegistered(_, _, _)
\* The parser most recently registered for ext among the first k calls of
\* the log and since the last clearParsers among them; None when there is
\* none.
LastRegistered(log, k, ext) ==
    IF k = 0 THEN None
    ELSE IF log[k].op = "clearParsers" THEN None
    ELSE IF ext \in Elements(log[k].parser.extensions) THEN Some(log[k].parser)
    ELSE LastRegistered(log, k - 1, ext)

\* The extensions of the parsers and of the paths.
RegistryExtensions ==
    UNION {Elements(p.extensions) : p \in RegistryParsers}
        \cup {ExtName(p) : p \in RegistryPaths}

\* C17: after any sequence of registerParser and clearParsers calls, every
\* extension is mapped to the parser most recently registered for it since
\* the last clearParsers and to nothing when there is none (so the map is
\* empty after clearParsers, and a registration changes the mapping of the
\* parser's own extensions only), and getParserForFile(path) returns the
\* mapping of the extension of path.
C17_RegistryLookup ==
    /\ \A ext \in RegistryExtensions \cup DOMAIN args.map :
          MapGet(args.map, ext) = LastRegistered(args.log, Len(args.log), ext)
    /\ pc = "getParserForFile" =>
          ret = LastRegistered(args.log, Len(args.log), ExtName(code))

\* A lookup that returns the second of two parsers registered for the
\* extension of the path, after a third registration for other extensions.
C17_Witness ==
    /\ pc = "getParserForFile"
    /\ Len(args.log) = 3
    /\ args.log[1].op = "registerParser"
    /\ args.log[2].op = "registerParser"
    /\ args.log[1].parser # args.log[2].parser
    /\ ExtName(code) \in Elements(args.log[1].parser.extensions)
    /\ ret = Some(args.log[2].parser)
    /\ args.log[3].op = "registerParser"
    /\ ExtName(code) \notin Elements(args.log[3].parser.extensions)
(***************************************************************************)
(* Specification of the file section: MarkdownGenerator.generateFileDoc    *)
(* called, with the parsers of startup registered, on a path, a list of    *)
(* signatures and an optional full source.                                 *)
(***************************************************************************)

\* The lists of signatures handed to generateFileDoc: none, a function, and
\* a function with an async method of a class.
FileDocSignatures ==
    LET fn == [name |-> <<"f", "n">>,
               parameters |-> << [name |-> <<"a">>, type |-> Some(<<"T">>)],
                                 [name |-> <<"b">>, type |-> None] >>,
               returnType |-> Some(<<"U">>), isAsync |-> FALSE, className |-> None]
        run == [name |-> <<"r", "u", "n">>, parameters |-> <<>>, returnType |-> None,
                isAsync |-> TRUE, className |-> Some(<<"J", "o", "b">>)]
    IN  { <<>>, <<fn>>, <<fn, run>> }

\* The full sources handed to generateFileDoc: undefined, the empty text and
\* a line of text.
FileDocSources == { None, Some(<<>>), Some(<<"l", "e", "t", " ", "x", " ", "=", " ", "1", ";", "\n">>) }

InitFileDoc ==
    /\ pc = "call"
    /\ \E filePath \in RegistryPaths, signatures \in FileDocSignatures,
          fullCode \in FileDocSources :
          args = [filePath |-> filePath, signatures |-> signatures,
                  fullCode |-> fullCode]
    /\ code = <<>>
    /\ matches = <<>>
    /\ ret = <<>>

\* MarkdownGenerator.generateFileDoc(filePath, signatures, fullCode)
CallGenerateFileDoc ==
    /\ pc = "call"
    /\ ret' = GenerateFileDoc(StartupMap, args.filePath, args.signatures,
                              args.fullCode)
    /\ pc' = "generateFileDoc"
    /\ UNCHANGED <<code, args, matches>>

SpecFileDoc == InitFileDoc /\ [][CallGenerateFileDoc]_vars

\* The call has a block to fence: signatures, or a full source.
FileDocHasBlock ==
    \/ args.signatures # <<>>
    \/ args.fullCode # None /\ args.fullCode[1] # <<>>

\* C18: generateFileDoc for a file whose extension has a parser registered
\* at startup completes, and the block of the section is fenced with the
\* markdown language id that parser declares; a section is fenced as
\* `plaintext` only when no parser is registered for the file.
C18_FencedWithLanguageId ==
    pc = "generateFileDoc" =>
        LET parser == GetParserForFile(StartupMap, args.filePath) IN
        /\ ret.threw = ""
        /\ parser # None => parser[1].languageId # None
        /\ parser # None /\ FileDocHasBlock =>
              Includes(ret.text, CodeFenceStart(parser[1].languageId[1]))
        /\ Includes(ret.text, CodeFenceStart(MD.PLAINTEXT)) => parser = None
(***************************************************************************)
(* Specification of the walk: the directory branch of the command run on   *)
(* a directory tree, with the parsers of startup registered.  args holds   *)
(* the directory, its entries and the options of walkSourceFiles.          *)
(***************************************************************************)

\* The most entries the walked directory has.
MaxEntries == 2

\* The names of the files of the tree.
WalkFileNames == { <<"a", ".", "t", "s">>, <<"m", "a", "i", "n", ".", "g", "o">>, <<"l", "i", "b", ".", "r", "s">>, <<"x", ".", "p", "y">>, <<"n", "o", "t", "e", "s", ".", "m", "d">>, <<"d", "a", "t", "a", ".", "j", "s", "o", "n">> }

\* The files of the tree: each name, ignored by git or not.
WalkFiles ==
    {[name |-> n, kind |-> "file", ignored |-> g] : n \in WalkFileNames, g \in BOOLEAN}

\* The directories of the tree: `sub`, ignored by git or not, empty or
\* with one file.
WalkDirectories ==
    {[name |-> <<"s", "u", "b">>, kind |-> "directory", ignored |-> g, entries |-> es] :
        g \in BOOLEAN, es \in {<<>>} \cup {<<f>> : f \in WalkFiles}}

\* The entries of the walked directory: a file, a directory, or a socket
\* named like a source file.
WalkEntryChoices ==
    WalkFiles \cup WalkDirectories
        \cup {[name |-> <<"s", ".", "t", "s">>, kind |-> "other", ignored |-> FALSE]}

\* The option sets of the calls: none, and git-ignore handling turned off.
WalkOptionChoices ==
    {DefaultWalkOptions, [extensions |-> None, ignoreGit |-> Some(FALSE)]}

InitWalk ==
    /\ pc = "call"
    /\ \E n \in 0..MaxEntries : \E entries \in [1..n -> WalkEntryChoices] :
       \E options \in WalkOptionChoices :
          args = [dir |-> <<"s", "r", "c">>, entries |-> entries, options |-> options]
    /\ code = <<>>
    /\ matches = <<>>
    /\ ret = <<>>

RECURSIVE ParsersOf(_)
\* MarkdownGenerator.getParserForFile(filePath) for each path of the loop:
\* the class of the parser, "" for undefined.
ParsersOf(paths) ==
    IF paths = <<>> THEN <<>>
    ELSE LET parser == GetParserForFile(StartupMap, Head(paths)) IN
         <<IF parser = None THEN "" ELSE parser[1].cls>> \o ParsersOf(Tail(paths))

\* `for await (const filePath of walkSourceFiles(basePath))` with the
\* lookup of the parser of each path: ret lists the paths yielded, matches
\* the parser each of them reaches.
CallWalkSourceFiles ==
    /\ pc = "call"
    /\ ret' = WalkSourceFiles(args.dir, args.entries, args.options)
    /\ matches' = ParsersOf(ret')
    /\ pc' = "walkSourceFiles"
    /\ UNCHANGED <<code, args>>

SpecWalk == InitWalk /\ [][CallWalkSourceFiles]_vars

\* The extensions of the table of supported languages.
SupportedExtensions ==
    { <<".", "t", "s">>, <<".", "t", "s", "x">>, <<".", "j", "s">>, <<".", "j", "s", "x">>, <<".", "g", "o">>, <<".", "j", "a", "v", "a">>, <<".", "p", "y">>, <<".", "r", "s">>, <<".", "p", "h", "p">> }

RECURSIVE RegularFiles(_, _, _)
\* The regular files under a directory: the path of each, and whether git
\* ignores it or a directory above it.
RegularFiles(dir, entries, ignored) ==
    IF entries = <<>> THEN {}
    ELSE LET entry == Head(entries)
             fullPath == JoinPath(dir, entry.name)
         IN  (IF entry.kind = "file"
              THEN {[path |-> fullPath, ignored |-> ignored \/ entry.ignored]}
              ELSE IF entry.kind = "directory"
              THEN RegularFiles(fullPath, entry.entries, ignored \/ entry.ignored)
              ELSE {})
                 \cup RegularFiles(dir, Tail(entries), ignored)

\* C19: with default options the walk yields every regular file under the
\* walked directory that git does not ignore and whose extension is in the
\* table of supported languages, and the file reaches a parser.
C19_SupportedFilesYielded ==
    pc = "walkSourceFiles" /\ args.options = DefaultWalkOptions =>
        \A f \in RegularFiles(args.dir, args.entries, FALSE) :
            ~f.ignored /\ ExtName(f.path) \in SupportedExtensions =>
                \E i \in 1..Len(ret) : ret[i] = f.path /\ matches[i] # ""
(***************************************************************************)
(* Specification of the command on one file: the file is read, its         *)
(* signatures are extracted by the parser of its extension and its section *)
(* of the document is generated, with or without --functions-only.         *)
(***************************************************************************)

\* The paths given to the command.
CliPaths == { <<"a", ".", "t", "s">>, <<"s", "r", "c", "/", "b", ".", "j", "s", "x">>, <<"m", "a", "i", "n", ".", "g", "o">>, <<"x", ".", "p", "h", "p">>, <<"n", "o", "t", "e", "s", ".", "m", "d">> }

\* The contents of the file: empty, without a function, and with the
\* declarations of a function in each language.
CliSources ==
    { <<>>, <<"l", "e", "t", " ", "x", " ", "=", " ", "1", ";", "\n">>, <<"#", " ", "n", "o", "t", "e", "s", "\n">>, <<"p", "a", "c", "k", "a", "g", "e", " ", "m", "a", "i", "n", "\n">> }
        \cup (RepeatSources \ {<<>>})

InitCli ==
    /\ pc = "call"
    /\ \E basePath \in CliPaths, functionsOnly \in BOOLEAN :
          args = [basePath |-> basePath, functionsOnly |-> functionsOnly]
    /\ code \in CliSources
    /\ matches = <<>>
    /\ ret = <<>>

\* The file branch of the command for args.basePath, whose content is
\* code: matches is the list of signatures, ret the section of the file.
CallProcessFile ==
    /\ pc = "call"
    /\ matches' = SignaturesOfFile(args.basePath, code)
    /\ ret' = SectionOf(FileResult(args.basePath, matches', code,
                                   args.functionsOnly))
    /\ pc' = "processFile"
    /\ UNCHANGED <<code, args>>

SpecCli == InitCli /\ [][CallProcessFile]_vars

\* C20: without --functions-only the section of a file with at least one
\* signature contains both the Function Signatures block and the Full
\* Source block; with --functions-only the section contains no Full Source
\* block, and contains the Function Signatures block, or `_No functions
\* found_` when the file has no signature.
C20_FullModeHasBothBlocks ==
    pc = "processFile" =>
        /\ ~args.functionsOnly /\ matches # <<>> =>
              /\ Includes(ret.text, MD.SIGNATURES_HEADER)
              /\ Includes(ret.text, MD.FULL_SOURCE_HEADER)
        /\ args.functionsOnly =>
              /\ ~Includes(ret.text, MD.FULL_SOURCE_HEADER)
              /\ IF matches # <<>>
                 THEN Includes(ret.text, MD.SIGNATURES_HEADER)
                 ELSE Includes(ret.text, MD.NO_FUNCTIONS_FOUND)
(***************************************************************************)
(* Specification of the TypeScript parameter parser on parameters with     *)
(* default values: every parameter text of up to MaxDefaultParams          *)
(* parameters, each with or without a type and with or without a default.  *)
(***************************************************************************)

MaxDefaultParams == 2

\* Declared parameters: `a` or `opts`, untyped or typed `T` or `Map<K, V>`,
\* without default or with the default `1`, `[]` or `"x"`; none of the
\* default expressions holds `=>`.
TsDefaultParamChoices ==
    [name : { <<"a">>, <<"o", "p", "t", "s">> },
     type : { None, Some(<<"T">>), Some(<<"M", "a", "p", "<", "K", ",", " ", "V", ">">>) },
     default : { None, Some(<<"1">>), Some(<<"[", "]">>), Some(<<"\"", "x", "\"">>) }]

\* The source text of a declared parameter: `name`, `name: type`,
\* `name = default` or `name: type = default`.
TsRenderDefaultParam(p) ==
    p.name \o (IF p.type = None THEN <<>> ELSE <<":", " ">> \o p.type[1])
           \o (IF p.default = None THEN <<>> ELSE <<" ", "=", " ">> \o p.default[1])

RECURSIVE TsRenderDefaultParams(_)
\* The parameter text of a declaration: its parameters joined by `, `.
TsRenderDefaultParams(params) ==
    IF params = <<>> THEN <<>>
    ELSE IF Len(params) = 1 THEN TsRenderDefaultParam(Head(params))
    ELSE TsRenderDefaultParam(Head(params)) \o <<",", " ">>
             \o TsRenderDefaultParams(Tail(params))

InitTsDefaults ==
    /\ pc = "call"
    /\ \E n \in 1..MaxDefaultParams : \E params \in [1..n -> TsDefaultParamChoices] :
          /\ args = [parser |-> "ts", params |-> params]
          /\ code = TsRenderDefaultParams(params)
    /\ matches = <<>>
    /\ ret = <<>>

SpecTsDefaults == InitTsDefaults /\ [][CallTsParseParameters]_vars

\* C21: a parameter written `name = default` or `name: Type = default`
\* (no `=>` in the default) gives a Param whose name is `name` and whose
\* type is `Type`, absent when the parameter is untyped.
C21_DefaultsStripped ==
    pc = "TsParseParameters" =>
        /\ Len(ret) = Len(args.params)
        /\ \A k \in 1..Len(args.params) :
              args.params[k].default # None =>
                  /\ ret[k].name = args.params[k].name
                  /\ ret[k].type = args.params[k].type
(***************************************************************************)
(* Specification of the TypeScript extractor on a module of top-level      *)
(* declarations of every kind, in any order: up to MaxOrderDecls of them.  *)
(***************************************************************************)

MaxOrderDecls == 3

\* The declarations of the module, each with the name it declares and the
\* pass that finds it: two functions, two arrow consts, a forwardRef
\* component with and without `React.`, a const alias and a class with
\* one method.
TsOrderDecls ==
    { [kind |-> "function", name |-> <<"f", "1">>, text |-> <<"f", "u", "n", "c", "t", "i", "o", "n", " ", "f", "1", "(", "a", 
        ")", " ", "{", "}", "\n">>],
      [kind |-> "function", name |-> <<"f", "2">>, text |-> <<"f", "u", "n", "c", "t", "i", "o", "n", " ", "f", "2", "(", "a", 
        ")", " ", "{", "}", "\n">>],
      [kind |-> "arrow", name |-> <<"a", "1">>, text |-> <<"c", "o", "n", "s", "t", " ", "a", "1", " ", "=", " ", "(", "a", 
        ")", " ", "=", ">", " ", "a", ";", "\n">>],
      [kind |-> "arrow", name |-> <<"a", "2">>, text |-> <<"c", "o", "n", "s", "t", " ", "a", "2", " ", "=", " ", "(", "a", 
        ")", " ", "=", ">", " ", "a", ";", "\n">>],
      [kind |-> "forwardRef", name |-> <<"R", "1">>,
       text |-> <<"c", "o", "n", "s", "t", " ", "R", "1", " ", "=", " ", "f", "o", 
        "r", "w", "a", "r", "d", "R", "e", "f", "(", "(", "p", ",", 
        " ", "r", ")", " ", "=", ">", " ", "n", "u", "l", "l", ")", 
        ";", "\n">>],
      [kind |-> "forwardRef", name |-> <<"R", "2">>,
       text |-> <<"c", "o", "n", "s", "t", " ", "R", "2", " ", "=", " ", "R", "e", 
        "a", "c", "t", ".", "f", "o", "r", "w", "a", "r", "d", "R", 
        "e", "f", "(", "(", "p", ",", " ", "r", ")", " ", "=", ">", 
        " ", "n", "u", "l", "l", ")", ";", "\n">>],
      [kind |-> "alias", name |-> <<"S", "1">>, text |-> <<"c", "o", "n", "s", "t", " ", "S", "1", " ", "=", " ", "L", "i", 
        "b", ".", "R", "o", "o", "t", ";", "\n">>],
      [kind |-> "method", name |-> <<"m", "1">>, text |-> <<"c", "l", "a", "s", "s", " ", "K", "1", " ", "{", "\n", " ", " ", 
        "m", "1", "(", "a", ")", " ", "{", "}", "\n", "}", "\n">>] }

RECURSIVE TsRenderModule(_)
\* The text of the module: its declarations, one after the other.
TsRenderModule(decls) ==
    IF decls = <<>> THEN <<>> ELSE Head(decls).text \o TsRenderModule(Tail(decls))

InitTsOrder ==
    /\ pc = "call"
    /\ \E n \in 1..MaxOrderDecls : \E decls \in [1..n -> TsOrderDecls] :
          /\ \A i \in 1..n : \A j \in 1..n : i # j => decls[i] # decls[j]
          /\ args = [parser |-> "ts", decls |-> decls]
          /\ code = TsRenderModule(decls)
    /\ matches = <<>>
    /\ ret = <<>>

SpecTsOrder == InitTsOrder /\ [][CallTsExtractSignatures]_vars

\* The position in the module of the declaration of a name.
TsOrderPosition(name) ==
    CHOOSE k \in 1..Len(args.decls) : args.decls[k].name = name

\* The pass a signature of the result comes from: the pass that finds the
\* declaration of its name, and the alias pass for a signature without
\* parameters of a forwardRef component.
TsOrderPass(sig) ==
    LET kind == args.decls[TsOrderPosition(sig.name)].kind IN
    IF kind = "forwardRef" /\ sig.parameters = <<>> THEN "alias" ELSE kind

\* The three groups of the claim, and the five passes, in merge order.
TsGroupRank(pass) ==
    IF pass = "function" THEN 1 ELSE IF pass = "method" THEN 3 ELSE 2

TsPassRank(pass) ==
    CASE pass = "function" -> 1 [] pass = "arrow" -> 2 [] pass = "forwardRef" -> 3
      [] pass = "alias" -> 4 [] pass = "method" -> 5

\* Every declaration of the module has a signature in the result, and every
\* signature of the result is of a declaration of the module.
TsOrderComplete ==
    /\ \A k \in 1..Len(args.decls) : \E i \in 1..Len(ret) :
          ret[i].name = args.decls[k].name
    /\ \A i \in 1..Len(ret) : \E k \in 1..Len(args.decls) :
          ret[i].name = args.decls[k].name

\* C22 as stated: function declarations precede arrow/const signatures,
\* which precede class members, and within each of the three groups the
\* signatures are in source order.
C22_ThreeGroupsInSourceOrder ==
    pc = "TsExtractSignatures" =>
        /\ TsOrderComplete
        /\ \A i \in 1..Len(ret) : \A j \in 1..Len(ret) :
              i < j =>
                  LET gi == TsGroupRank(TsOrderPass(ret[i]))
                      gj == TsGroupRank(TsOrderPass(ret[j]))
                  IN  \/ gi < gj
                      \/ gi = gj /\ TsOrderPosition(ret[i].name)
                                       <= TsOrderPosition(ret[j].name)

\* C22: function declarations precede arrow consts, which precede
\* forwardRef components, which precede const aliases, which precede class
\* members, and within each of the five passes the signatures are in
\* source order.
C22_PassesInSourceOrder ==
    pc = "TsExtractSignatures" =>
        /\ TsOrderComplete
        /\ \A i \in 1..Len(ret) : \A j \in 1..Len(ret) :
              i < j =>
                  LET pi == TsPassRank(TsOrderPass(ret[i]))
                      pj == TsPassRank(TsOrderPass(ret[j]))
                  IN  \/ pi < pj
                      \/ pi = pj /\ TsOrderPosition(ret[i].name)
                                       < TsOrderPosition(ret[j].name)

\* A module with the class first, then a const, then a function, whose
\* signatures come out in the opposite order.
C22_Witness ==
    /\ pc = "TsExtractSignatures"
    /\ Len(args.decls) = 3
    /\ args.decls[1].kind = "method"
    /\ args.decls[2].kind \in {"arrow", "alias"}
    /\ args.decls[3].kind = "function"
    /\ Len(ret) = 3
    /\ ret[1].name = args.decls[3].name
    /\ ret[2].name = args.decls[2].name
    /\ ret[3].name = args.decls[1].name
    /\ ret[3].className # None
(***************************************************************************)
(* Specification of the TypeScript extractor on nested declarations: a     *)
(* module of up to MaxNestedItems declarations, each at top level, after a *)
(* comment that holds a brace, in the body of a function or in the block   *)
(* of an `if`, the module with or without a stray `}` before them.         *)
(***************************************************************************)

MaxNestedItems == 2

\* The declarations: one for each pass.
TsNestedDecls ==
    { [kind |-> "function", name |-> <<"f", "1">>, text |-> <<"f", "u", "n", "c", "t", "i", "o", "n", " ", "f", "1", "(", "a", 
        ")", " ", "{", "}", "\n">>],
      [kind |-> "arrow", name |-> <<"a", "1">>, text |-> <<"c", "o", "n", "s", "t", " ", "a", "1", " ", "=", " ", "(", "a", 
        ")", " ", "=", ">", " ", "a", ";", "\n">>],
      [kind |-> "forwardRef", name |-> <<"R", "1">>,
       text |-> <<"c", "o", "n", "s", "t", " ", "R", "1", " ", "=", " ", "f", "o", 
        "r", "w", "a", "r", "d", "R", "e", "f", "(", "(", "p", ",", 
        " ", "r", ")", " ", "=", ">", " ", "n", "u", "l", "l", ")", 
        ";", "\n">>],
      [kind |-> "alias", name |-> <<"S", "1">>, text |-> <<"c", "o", "n", "s", "t", " ", "S", "1", " ", "=", " ", "L", "i", 
        "b", ".", "R", "o", "o", "t", ";", "\n">>],
      [kind |-> "method", name |-> <<"m", "1">>, text |-> <<"c", "l", "a", "s", "s", " ", "K", "1", " ", "{", "\n", " ", " ", 
        "m", "1", "(", "a", ")", " ", "{", "}", "\n", "}", "\n">>] }

\* Where a declaration stands.
TsNestedPlaces == {"top", "afterComment", "functionBody", "ifBlock"}

\* The text of a declaration at its place.
TsRenderNested(item) ==
    CASE item.place = "top" -> item.decl.text
      [] item.place = "afterComment" -> <<"/", "/", " ", "{", "\n">> \o item.decl.text
      [] item.place = "functionBody" ->
             <<"f", "u", "n", "c", "t", "i", "o", "n", " ", "o", "u", "t", "e", 
        "r", "(", ")", " ", "{", "\n">> \o item.decl.text \o <<"}", "\n">>
      [] item.place = "ifBlock" -> <<"i", "f", " ", "(", "x", ")", " ", "{", "\n">> \o item.decl.text \o <<"}", "\n">>

RECURSIVE TsRenderNestedItems(_)
TsRenderNestedItems(items) ==
    IF items = <<>> THEN <<>>
    ELSE TsRenderNested(Head(items)) \o TsRenderNestedItems(Tail(items))

InitTsNested ==
    /\ pc = "call"
    /\ \E n \in 1..MaxNestedItems :
       \E items \in [1..n -> [decl : TsNestedDecls, place : TsNestedPlaces]] :
       \E stray \in BOOLEAN :
          /\ \A i \in 1..n : \A j \in 1..n : i # j => items[i].decl # items[j].decl
          /\ \A i \in 3..n : items[i].place = "top"
          /\ args = [parser |-> "ts", items |-> items, stray |-> stray]
          /\ code = (IF stray THEN <<"}", "\n">> ELSE <<>>) \o TsRenderNestedItems(items)
    /\ matches = <<>>
    /\ ret = <<>>

SpecTsNested == InitTsNested /\ [][CallTsExtractSignatures]_vars

\* The names declared outside every block: those of the declarations at top
\* level or after a comment, and `outer` of a function that wraps one.
TsTopLevelNames ==
    {args.items[k].decl.name :
        k \in {i \in 1..Len(args.items) :
                 args.items[i].place \in {"top", "afterComment"}}}
        \cup {<<"o", "u", "t", "e", "r">> : k \in {i \in 1..Len(args.items) :
                                  args.items[i].place = "functionBody"}}

MaxGroupSegments == 4

\* The name written in the k-th segment.
GoGroupNames == <<<<"a">>, <<"b">>, <<"c">>, <<"d">>, <<"e">>, <<"f">>>>

\* What a segment holds after its name: nothing (a bare name), or the type
\* `int`, `...string`, `Pair[K, V]` or `func(x, y int) bool`; "func" stands
\* for the unnamed segment `func(int) error`.
GoGroupKinds ==
    { <<>>, <<"i", "n", "t">>, <<".", ".", ".", "s", "t", "r", "i", "n", "g">>, <<"P", "a", "i", "r", "[", "K", ",", " ", "V", "]">>, <<"f", "u", "n", "c", "(", "x", ",", " ", "y", " ", "i", "n", "t", 
        ")", " ", "b", "o", "o", "l">>, <<"f", "u", "n", "c">> }

\* The source text of the k-th segment.
GoRenderGroupSegment(k, kind) ==
    IF kind = <<"f", "u", "n", "c">> THEN <<"f", "u", "n", "c", "(", "i", "n", "t", ")", " ", "e", "r", "r", 
        "o", "r">>
    ELSE IF kind = <<>> THEN GoGroupNames[k]
    ELSE GoGroupNames[k] \o <<" ">> \o kind

InitGoGroup ==
    /\ pc = "call"
    /\ \E n \in 1..MaxGroupSegments : \E kinds \in [1..n -> GoGroupKinds] :
          /\ args = [parser |-> "go", kinds |-> kinds]
          /\ code = Join([k \in 1..n |-> GoRenderGroupSegment(k, kinds[k])], <<",", " ">>)
    /\ matches = <<>>
    /\ ret = <<>>

CallGoParseParameters ==
    /\ pc = "call"
    /\ pc' = "GoParseParameters"
    /\ ret' = GoParseParameters(code)
    /\ UNCHANGED <<code, args, matches>>

SpecGoGroup == InitGoGroup /\ [][CallGoParseParameters]_vars

\* A segment of the parser's `segments` list that is an unnamed function type.
IsFuncSegment(raw) == StartsWith(raw, <<"f", "u", "n", "c", "(">>)

\* A `name type` segment: it holds whitespace.
IsTypedSegment(raw) ==
    ~IsFuncSegment(raw) /\ \E k \in 1..Len(raw) : IsSpace(raw[k])

\* A bare-name segment.
IsBareSegment(raw) == ~IsFuncSegment(raw) /\ ~IsTypedSegment(raw)

\* The name and the type a `name type` segment is written with.
TypedSegmentName(raw) == Head(SplitWhitespace(raw))

TypedSegmentType(raw) == Join(Tail(SplitWhitespace(raw)), <<" ">>)

\* The index of the nearest typed segment after segment k; 0 when none.
NextTypedSegment(segments, k) ==
    LET later == {j \in (k + 1)..Len(segments) : IsTypedSegment(segments[j])} IN
    IF later = {} THEN 0 ELSE MinOf(later)

\* The Params of the bare-name and the `name type` segments, in the order
\* of the Params.
NamedParams(params) == SelectSeq(params, LAMBDA p : p.name # AnonymousName)

\* The segments other than unnamed function types, in order.
NamedSegments(segments) == SelectSeq(segments, LAMBDA raw : ~IsFuncSegment(raw))

\* C24: with segments the list parseParameters splits the text into, every
\* bare-name segment gives a Param with the type of the nearest following
\* `name type` segment, or without type when none follows; every `name type`
\* segment gives a Param with its own name and type; and nothing is carried
\* over a `name type` segment: the Params are those of the segments up to it
\* followed by those of the segments after it.
C24_GroupedNamesShareType ==
    pc = "GoParseParameters" =>
        LET segments == GoSegments(code)
            named == NamedSegments(segments)
            params == NamedParams(ret)
        IN  /\ Len(params) = Len(named)
            /\ \A k \in 1..Len(named) :
                  IF IsTypedSegment(named[k])
                  THEN /\ params[k].name = TypedSegmentName(named[k])
                       /\ params[k].type = Some(TypedSegmentType(named[k]))
                  ELSE LET j == NextTypedSegment(named, k) IN
                       /\ params[k].name = named[k]
                       /\ params[k].type = IF j = 0 THEN None
                                           ELSE Some(TypedSegmentType(named[j]))
            /\ \A k \in 1..Len(segments) :
                  IsTypedSegment(segments[k]) =>
                      ret = GoParamsLoop(SubSeq(segments, 1, k), <<>>)
                               \o GoParamsLoop(SubSeq(segments, k + 1, Len(segments)), <<>>)

\* C24 witness: `a, b int, c ...string, d` gives a: int, b: int,
\* c: ...string and d without type.
C24_Witness ==
    /\ pc = "GoParseParameters"
    /\ code = <<"a", ",", " ", "b", " ", "i", "n", "t", ",", " ", "c", " ", ".", 
        ".", ".", "s", "t", "r", "i", "n", "g", ",", " ", "d">>
    /\ ret = << [name |-> <<"a">>, type |-> Some(<<"i", "n", "t">>)],
                [name |-> <<"b">>, type |-> Some(<<"i", "n", "t">>)],
                [name |-> <<"c">>, type |-> Some(<<".", ".", ".", "s", "t", "r", "i", "n", "g">>)],
                [name |-> <<"d">>, type |-> None] >>
(***************************************************************************)
(* Specification of the Go extractor on result types: one function with a  *)
(* parameter list, a result and a body, each drawn from the choices below. *)
(***************************************************************************)

\* (none), `a, b float64`, `data map[string]interface{}`
GoResultParamChoices ==
    { <<>>, <<"a", ",", " ", "b", " ", "f", "l", "o", "a", "t", "6", "4">>, <<"d", "a", "t", "a", " ", "m", "a", "p", "[", "s", "t", "r", "i", 
        "n", "g", "]", "i", "n", "t", "e", "r", "f", "a", "c", "e", 
        "{", "}">> }

\* The results a declaration is written with: none, a bare type, or a
\* parenthesised list (inner text with or without padding).
GoResultChoices ==
    { [paren |-> FALSE, text |-> <<>>],
      [paren |-> FALSE, text |-> <<"i", "n", "t">>],
      [paren |-> FALSE, text |-> <<"*", "p", "k", "g", ".", "T">>],
      [paren |-> FALSE, text |-> <<"m", "a", "p", "[", "s", "t", "r", "i", "n", "g", "]", "i", "n", "t">>],
      [paren |-> FALSE, text |-> <<"c", "h", "a", "n", "<", "-", " ", "i", "n", "t">>],
      [paren |-> FALSE, text |-> <<"f", "u", "n", "c", "(", "i", "n", "t", ")", " ", "e", "r", "r", 
        "o", "r">>],
      [paren |-> FALSE, text |-> <<"i", "n", "t", "e", "r", "f", "a", "c", "e", "{", "}">>],
      [paren |-> FALSE, text |-> <<"m", "a", "p", "[", "s", "t", "r", "i", "n", "g", "]", "i", "n", 
        "t", "e", "r", "f", "a", "c", "e", "{", "}">>],
      [paren |-> TRUE, text |-> <<"f", "l", "o", "a", "t", "6", "4", ",", " ", "e", "r", "r", "o", "r">>],
      [paren |-> TRUE, text |-> <<" ", "n", " ", "i", "n", "t", ",", " ", "e", "r", "r", " ", "e", 
        "r", "r", "o", "r", " ">>],
      [paren |-> TRUE, text |-> <<"i", "n", "t", "e", "r", "f", "a", "c", "e", "{", "}", ",", " ", 
        "e", "r", "r", "o", "r">>] }

\* The body between the braces: empty, or one statement on its own line.
GoBodyChoices == { <<>>, <<"\n", " ", " ", "r", "e", "t", "u", "r", "n", "\n">>, <<"\n", " ", " ", "i", "f", " ", "o", "k", " ", "{", " ", "r", "e", 
        "t", "u", "r", "n", " ", "}", "\n">> }

\* The source text of the declaration.
GoRenderResultDecl(name, params, result, body) ==
    <<"f", "u", "n", "c", " ">> \o name \o <<"(">> \o params \o <<")">>
        \o (IF result.paren THEN <<" ", "(">> \o result.text \o <<")">>
            ELSE IF result.text = <<>> THEN <<>>
            ELSE <<" ">> \o result.text)
        \o <<" ", "{">> \o body \o <<"}", "\n">>

InitGoResult ==
    /\ pc = "call"
    /\ \E name \in GoNameChoices, params \in GoResultParamChoices,
          result \in GoResultChoices, body \in GoBodyChoices :
          /\ args = [parser |-> "go", name |-> name, params |-> params,
                     result |-> result, body |-> body]
          /\ code = GoRenderResultDecl(name, params, result, body)
    /\ matches = <<>>
    /\ ret = <<>>

SpecGoResult == InitGoResult /\ [][CallGoExtractSignatures]_vars

\* The returnType of the declaration in the file: `(` trimmed inner text `)`
\* of a parenthesised result list, the whole text of a bare result type,
\* none without result.
GoDeclaredReturnType ==
    IF args.result.paren THEN Some(<<"(">> \o Trim(args.result.text) \o <<")">>)
    ELSE IF args.result.text = <<>> THEN None
    ELSE Some(args.result.text)

\* C25: the Go function's returnType is `(` + trimmed inner text + `)` for a
\* parenthesised result list, else the complete result-type text between
\* the parameters and the opening brace of the body, and it is absent
\* exactly when the declaration has no result.
C25_GoReturnType ==
    pc = "GoExtractSignatures" =>
        /\ Len(ret) = 1
        /\ ret[1].returnType = GoDeclaredReturnType
(***************************************************************************)
(* Specification of the PHP parameter parser: every parameter text of one  *)
(* parameter in any of the forms below, alone or followed by a second      *)
(* parameter.                                                              *)
(***************************************************************************)

\* Declared parameters: with or without the attribute `#[Sensitive]`;
\* untyped or typed `int`, `?User` or `int|string`; by value or by
\* reference; plain, with the default `null`, or variadic.
PhpParamChoices ==
    [attribute : BOOLEAN,
     type : { <<>>, <<"i", "n", "t">>, <<"?", "U", "s", "e", "r">>, <<"i", "n", "t", "|", "s", "t", "r", "i", "n", "g">> },
     byRef : BOOLEAN,
     tail : { "plain", "default", "variadic" }]

\* The parameters that may follow the first: `string &$out`, `int ...$nums`.
PhpSecondChoices ==
    { [attribute |-> FALSE, type |-> <<"s", "t", "r", "i", "n", "g">>, byRef |-> TRUE, tail |-> "plain"],
      [attribute |-> FALSE, type |-> <<"i", "n", "t">>, byRef |-> FALSE, tail |-> "variadic"] }

\* The name of the k-th parameter.
PhpParamNames == <<<<"u", "s", "e", "r">>, <<"r", "e", "s", "t">>>>

\* The text of a declared parameter before its `$`.
PhpTextBeforeName(p) ==
    (IF p.attribute THEN <<"#", "[", "S", "e", "n", "s", "i", "t", "i", "v", "e", "]", " ">> ELSE <<>>)
        \o p.type
        \o (IF p.type # <<>> /\ (p.byRef \/ p.tail = "variadic") THEN <<" ">> ELSE <<>>)
        \o (IF p.byRef THEN <<"&">> ELSE <<>>)
        \o (IF p.tail = "variadic" THEN <<".", ".", ".">> ELSE <<>>)

\* The source text of the k-th declared parameter.
PhpRenderParam(k, p) ==
    PhpTextBeforeName(p)
        \o (IF p.type # <<>> /\ ~p.byRef /\ p.tail # "variadic" THEN <<" ">> ELSE <<>>)
        \o <<"$">> \o PhpParamNames[k]
        \o (IF p.tail = "default" THEN <<" ", "=", " ", "n", "u", "l", "l">> ELSE <<>>)

InitPhpParams ==
    /\ pc = "call"
    /\ \E first \in PhpParamChoices :
       \E params \in {<<first>>} \cup {<<first, second>> : second \in PhpSecondChoices} :
          /\ args = [parser |-> "php", params |-> params]
          /\ code = Join([k \in 1..Len(params) |-> PhpRenderParam(k, params[k])], <<",", " ">>)
    /\ matches = <<>>
    /\ ret = <<>>

CallPhpParseParameters ==
    /\ pc = "call"
    /\ pc' = "PhpParseParameters"
    /\ ret' = PhpParseParameters(code)
    /\ UNCHANGED <<code, args, matches>>

SpecPhpParams == InitPhpParams /\ [][CallPhpParseParameters]_vars

\* The type of a Param for the text `before` that stands before the `$` of
\* a parameter: `before` with `&` and `...` removed, absent if empty, and
\* prefixed with `...` when the parameter is variadic.
PhpTypeFrom(before, p) ==
    LET text == Trim(RemoveAll(RemoveAll(before, <<"&">>), <<".", ".", ".">>)) IN
    IF p.tail = "variadic" THEN Some(<<".", ".", ".">> \o text)
    ELSE IF text = <<>> THEN None ELSE Some(text)

\* C26 as stated: the name of each Param is the identifier after `$`, and
\* its type is the text before `$` with `&` and `...` removed, prefixed with
\* `...` when variadic; the default value is dropped.
C26_PhpParameterForms ==
    pc = "PhpParseParameters" =>
        /\ Len(ret) = Len(args.params)
        /\ \A k \in 1..Len(args.params) :
              /\ ret[k].name = PhpParamNames[k]
              /\ ret[k].type = PhpTypeFrom(PhpTextBeforeName(args.params[k]),
                                           args.params[k])

\* The text before `$` without its `#[...]` attribute.
PhpTextWithoutAttribute(p) ==
    PhpTextBeforeName([p EXCEPT !.attribute = FALSE])

\* C26 amended: as C26, with the type taken from the text before `$` after
\* its `#[...]` attributes are removed too; `?Type` and `A|B` are kept as
\* written.
C26_PhpParameterFormsNoAttribute ==
    pc = "PhpParseParameters" =>
        /\ Len(ret) = Len(args.params)
        /\ \A k \in 1..Len(args.params) :
              /\ ret[k].name = PhpParamNames[k]
              /\ ret[k].type = PhpTypeFrom(PhpTextWithoutAttribute(args.params[k]),
                                           args.params[k])
              /\ (args.params[k].type \in {<<"?", "U", "s", "e", "r">>, <<"i", "n", "t", "|", "s", "t", "r", "i", "n", "g">>}
                    /\ args.params[k].tail # "variadic") =>
                     ret[k].type = Some(args.params[k].type)

\* C26 witness: `#[Sensitive] ?User &$user = null, int ...$nums` gives
\* user: ?User and rest: ...int.
C26_Witness ==
    /\ pc = "PhpParseParameters"
    /\ code = <<"#", "[", "S", "e", "n", "s", "i", "t", "i", "v", "e", "]", " ", 
        "?", "U", "s", "e", "r", " ", "&", "$", "u", "s", "e", "r", 
        " ", "=", " ", "n", "u", "l", "l", ",", " ", "i", "n", "t", 
        " ", ".", ".", ".", "$", "r", "e", "s", "t">>
    /\ ret = << [name |-> <<"u", "s", "e", "r">>, type |-> Some(<<"?", "U", "s", "e", "r">>)],
                [name |-> <<"r", "e", "s", "t">>, type |-> Some(<<".", ".", ".", "i", "n", "t">>)] >>
(***************************************************************************)
(* Specification of the Go extractor after a rejected candidate: a text    *)
(* that holds a `func` token which is no function declaration, followed by *)
(* 1..MaxLaterDecls well-formed function declarations.                     *)
(***************************************************************************)

MaxLaterDecls == 2

\* Texts whose `func` token gives no signature: a func type in a type
\* declaration, a func-typed struct field, a function literal, a header
\* without parameter list, a receiver without name.
GoRejectedChoices ==
    { <<"t", "y", "p", "e", " ", "H", "a", "n", "d", "l", "e", "r", " ", 
        "f", "u", "n", "c", "(", "i", "n", "t", ")", " ", "e", "r", 
        "r", "o", "r", "\n">>,
      <<"t", "y", "p", "e", " ", "O", "p", " ", "s", "t", "r", "u", "c", 
        "t", " ", "{", "\n", " ", " ", "r", "u", "n", " ", "f", "u", 
        "n", "c", "(", "i", "n", "t", ")", " ", "i", "n", "t", "\n", 
        "}", "\n">>,
      <<"v", "a", "r", " ", "f", " ", "=", " ", "f", "u", "n", "c", "(", 
        "x", " ", "i", "n", "t", ")", " ", "i", "n", "t", " ", "{", 
        " ", "r", "e", "t", "u", "r", "n", " ", "x", " ", "}", "\n">>,
      <<"f", "u", "n", "c", " ", "b", "r", "o", "k", "e", "n", " ", "{", 
        "\n", "}", "\n">>,
      <<"f", "u", "n", "c", " ", "(", "c", " ", "*", "C", "a", "l", "c", 
        ")", " ", "{", "\n", "}", "\n">> }

\* Well-formed declarations, each with the name it declares.
GoLaterChoices ==
    { [name |-> <<"A", "d", "d">>, text |-> <<"f", "u", "n", "c", " ", "A", "d", "d", "(", "a", " ", "i", "n", 
        "t", ")", " ", "i", "n", "t", " ", "{", "\n", " ", " ", "r", 
        "e", "t", "u", "r", "n", " ", "a", "\n", "}", "\n">>],
      [name |-> <<"G", "e", "t">>, text |-> <<"f", "u", "n", "c", " ", "(", "c", " ", "*", "C", "a", "l", "c", 
        ")", " ", "G", "e", "t", "(", ")", " ", "{", "\n", "}", "\n">>],
      [name |-> <<"R", "u", "n">>, text |-> <<"f", "u", "n", "c", " ", "R", "u", "n", "(", "c", "b", " ", "f", 
        "u", "n", "c", "(", "i", "n", "t", ")", " ", "e", "r", "r", 
        "o", "r", ")", " ", "(", "i", "n", "t", ",", " ", "e", "r", 
        "r", "o", "r", ")", " ", "{", "\n", "}", "\n">>] }

RECURSIVE GoRenderLater(_)
GoRenderLater(decls) ==
    IF decls = <<>> THEN <<>> ELSE Head(decls).text \o GoRenderLater(Tail(decls))

InitGoRejected ==
    /\ pc = "call"
    /\ \E rejected \in GoRejectedChoices : \E n \in 1..MaxLaterDecls :
       \E later \in [1..n -> GoLaterChoices] :
          /\ args = [parser |-> "go", rejected |-> rejected, later |-> later]
          /\ code = rejected \o GoRenderLater(later)
    /\ matches = <<>>
    /\ ret = <<>>

SpecGoRejected == InitGoRejected /\ [][CallGoExtractSignatures]_vars

\* The number of signatures with the given name.
GoSignaturesNamed(name) == Cardinality({i \in 1..Len(ret) : ret[i].name = name})

\* C27: after a `func` token that gives no signature, every later
\* well-formed declaration of the source still gives its own signature: the
\* signatures are those of the later declarations, one each, in order.
C27_LaterDeclarationsKept ==
    pc = "GoExtractSignatures" =>
        /\ Len(ret) = Len(args.later)
        /\ \A k \in 1..Len(args.later) : ret[k].name = args.later[k].name
(***************************************************************************)
(* Specification of the TypeScript extractor on a top-level class: a class *)
(* K1 with 1..MaxClassMembers members, each with one statement in its      *)
(* body.                                                                   *)
(***************************************************************************)

MaxClassMembers == 2

\* The statement in a member's body: none, or one of the lines below.
TsBodyStatements ==
    { <<>>, <<"r", "e", "t", "u", "r", "n", " ", "a", ";">>, <<"t", "h", "i", "s", ".", "x", " ", "=", " ", "a", ";">>, <<"i", "f", " ", "(", "a", ")", " ", "{", " ", "}">>, <<"f", "o", "r", " ", "(", ";", ";", ")", " ", "{", " ", "}">>,
      <<"s", "u", "p", "e", "r", "(", "a", ")", ";">>, <<"r", "u", "n", "(", "a", ")", ";">> }

\* The name of the k-th member: `constructor`, or the method name m<k>.
TsMemberName(k, member) ==
    IF member.kind = "constructor" THEN <<"c", "o", "n", "s", "t", "r", "u", "c", "t", "o", "r">>
    ELSE <<"m">> \o <<<<"1", "2", "3">>[k]>>

\* The source text of the k-th member, indented in the class body.
TsRenderMember(k, member) ==
    <<" ", " ">> \o TsMemberName(k, member) \o <<"(", "a", ")", " ", "{", "\n">>
        \o (IF member.stmt = <<>> THEN <<>> ELSE <<" ", " ", " ", " ">> \o member.stmt \o <<"\n">>)
        \o <<" ", " ", "}", "\n">>

RECURSIVE TsRenderMembers(_, _)
TsRenderMembers(members, k) ==
    IF k > Len(members) THEN <<>>
    ELSE TsRenderMember(k, members[k]) \o TsRenderMembers(members, k + 1)

InitTsClass ==
    /\ pc = "call"
    /\ \E n \in 1..MaxClassMembers :
       \E members \in [1..n -> [kind : {"constructor", "method"},
                                stmt : TsBodyStatements]] :
          /\ \A k \in 2..n : members[k].kind = "method"
          /\ args = [parser |-> "ts", members |-> members]
          /\ code = <<"c", "l", "a", "s", "s", " ", "K", "1", " ", "{", "\n">> \o TsRenderMembers(members, 1) \o <<"}", "\n">>
    /\ matches = <<>>
    /\ ret = <<>>

SpecTsClass == InitTsClass /\ [][CallTsExtractSignatures]_vars

\* The names declared directly in the class body.
TsDeclaredMembers ==
    {TsMemberName(k, args.members[k]) : k \in 1..Len(args.members)}

\* C28: every signature with the className of a top-level class is of a
\* method or constructor declared directly in the class body: a statement
\* of a member's body that starts its line with `identifier(` gives no
\* signature.
C28_ClassMembersOnly ==
    pc = "TsExtractSignatures" =>
        /\ \A i \in 1..Len(ret) :
              ret[i].className = Some(<<"K", "1">>) => ret[i].name \in TsDeclaredMembers
        /\ Len(ret) = Len(args.members)
(***************************************************************************)
(* Specification of the TypeScript extractor on forwardRef components: one *)
(* top-level `const Name = forwardRef(...)` declaration in each of the     *)
(* written forms below.                                                    *)
(***************************************************************************)

\* The forms of a forwardRef component declaration: exported or not, the
\* factory written `forwardRef` or `React.forwardRef`, with or without type
\* arguments, and the inner arrow's parameter names and return annotation.
TsForwardRefChoices ==
    [export : BOOLEAN,
     name : { <<"R", "1">>, <<"B", "u", "t", "t", "o", "n">> },
     factory : { <<"f", "o", "r", "w", "a", "r", "d", "R", "e", "f">>, <<"R", "e", "a", "c", "t", ".", "f", "o", "r", "w", "a", "r", "d", 
        "R", "e", "f">> },
     generics : { <<>>, <<"<", "H", "T", "M", "L", "D", "i", "v", "E", "l", "e", "m", "e", 
        "n", "t", ",", " ", "P", "r", "o", "p", "s", ">">> },
     params : { << <<"p", "r", "o", "p", "s">>, <<"r", "e", "f">> >>, << <<"p">> >> },
     returns : { <<>>, <<"J", "S", "X", ".", "E", "l", "e", "m", "e", "n", "t">> }]

\* The source text of the declaration.
TsRenderForwardRef(d) ==
    (IF d.export THEN <<"e", "x", "p", "o", "r", "t", " ">> ELSE <<>>)
        \o <<"c", "o", "n", "s", "t", " ">> \o d.name \o <<" ", "=", " ">> \o d.factory \o d.generics
        \o <<"(", "(">> \o Join(d.params, <<",", " ">>) \o <<")">>
        \o (IF d.returns = <<>> THEN <<>> ELSE <<":", " ">> \o d.returns)
        \o <<" ", "=", ">", " ", "n", "u", "l", "l", ")", ";", "\n">>

InitTsForwardRef ==
    /\ pc = "call"
    /\ \E d \in TsForwardRefChoices :
          /\ args = [parser |-> "ts", decl |-> d]
          /\ code = TsRenderForwardRef(d)
    /\ matches = <<>>
    /\ ret = <<>>

SpecTsForwardRef == InitTsForwardRef /\ [][CallTsExtractSignatures]_vars

\* C29: a top-level forwardRef component declaration gives exactly one
\* signature, named after the binding, with the inner arrow's parameters;
\* there is no second signature without parameters for the binding.
C29_OneSignaturePerForwardRef ==
    pc = "TsExtractSignatures" =>
        /\ Len(ret) = 1
        /\ ret[1].name = args.decl.name
        /\ Len(ret[1].parameters) = Len(args.decl.params)
        /\ \A k \in 1..Len(args.decl.params) :
              ret[1].parameters[k].name = args.decl.params[k]
(***************************************************************************)
(* Specification of the walker's git-availability cache: up to MaxWalks    *)
(* calls of walkSourceFiles in one process, each on a directory of up to   *)
(* MaxWalkFiles source files.  args holds whether git is installed and the *)
(* entries and options of the last call; ret holds the cache, the number   *)
(* of calls made and what the last call did.                               *)
(***************************************************************************)

MaxWalks == 3

MaxWalkFiles == 2

\* The k-th file of the walked directory.
CachedWalkNames == <<<<"a", ".", "t", "s">>, <<"b", ".", "t", "s">>, <<"c", ".", "t", "s">>>>

\* What is true of a file: whether it lies in a repository, whether git
\* check-ignore reports it, whether the .gitignore patterns match it.
CachedWalkEntryFacts == [inRepo : BOOLEAN, gitIgnores : BOOLEAN, patternIgnores : BOOLEAN]

\* The options of a call: nativeGit and ignoreGit, each given or left out.
CachedWalkOptions ==
    [nativeGit : {None, Some(TRUE), Some(FALSE)},
     ignoreGit : {None, Some(FALSE)}]

InitGitCache ==
    /\ pc = "loaded"
    /\ \E gitInstalled \in BOOLEAN : args = [parser |-> "walker", gitInstalled |-> gitInstalled]
    /\ code = <<>>
    /\ matches = <<>>
    /\ ret = [cache |-> InitialGitAvailCache, calls |-> 0, yielded |-> <<>>,
              spawned |-> <<>>, decidedBy |-> <<>>]

\* One whole walk: walkSourceFiles drained by its caller.
CallWalkSourceFilesCached ==
    /\ ret.calls < MaxWalks
    /\ \E n \in 1..MaxWalkFiles : \E facts \in [1..n -> CachedWalkEntryFacts] :
       \E options \in CachedWalkOptions :
          LET entries == [k \in 1..n |->
                             [name |-> CachedWalkNames[k], inRepo |-> facts[k].inRepo,
                              gitIgnores |-> facts[k].gitIgnores,
                              patternIgnores |-> facts[k].patternIgnores]]
              walk == WalkSourceFilesCached(ret.cache, entries, options,
                                            args.gitInstalled)
          IN  /\ args' = [parser |-> "walker", gitInstalled |-> args.gitInstalled,
                          entries |-> entries, options |-> options]
              /\ ret' = [cache |-> walk.cache, calls |-> ret.calls + 1,
                         yielded |-> walk.yielded, spawned |-> walk.spawned,
                         decidedBy |-> walk.decidedBy]
    /\ pc' = "walkSourceFiles"
    /\ UNCHANGED <<code, matches>>

SpecGitCache == InitGitCache /\ [][CallWalkSourceFilesCached]_vars

\* The nativeGit option of the last walk.
LastWalkNative == args.options.nativeGit = Some(TRUE)

\* The ignoreGit option of the last walk.
LastWalkIgnoreGit == args.options.ignoreGit # Some(FALSE)

\* C30: after any sequence of walks, a walk made with nativeGit true
\* decided the ignore status of every file inside a repository with the git
\* binary when git is installed, a walk made with nativeGit false spawned
\* no git command, and the cached availability agrees with the option of
\* the walk.
C30_CacheFollowsOption ==
    pc = "walkSourceFiles" =>
        /\ (LastWalkNative /\ LastWalkIgnoreGit /\ args.gitInstalled) =>
              \A k \in 1..Len(args.entries) :
                  args.entries[k].inRepo => ret.decidedBy[k] = "git"
        /\ ~LastWalkNative => ret.spawned = <<>>
        /\ (ret.cache.checked /\ ret.cache.available) => LastWalkNative

=============================================================================
